---- MODULE Spec2Model ----
(***************************************************************************)
(* zod-sqlite: compilation of a table configuration (columns with Zod      *)
(* schemas, primary keys, indexes) into a CREATE TABLE statement, CREATE   *)
(* INDEX statements and a Zod object schema.                               *)
(*                                                                         *)
(* The functions of the compiler keep no state.  A behaviour of the model  *)
(* is one call, or the same call made twice: Init chooses the function and *)
(* its arguments, the function's action computes the return value.  The    *)
(* only thing a call reads besides its arguments is what a default         *)
(* function returns, which for () => Date.now() is the clock `now`.        *)
(*                                                                         *)
(* Encoding of JavaScript values                                           *)
(*   string      a sequence of atoms; an atom is a TLA+ string standing    *)
(*               for one or more characters that the code never splits.    *)
(*               The single quote is always the atom "'" on its own, so    *)
(*               that replace(/'/g, "''") is modelled character-exactly.   *)
(*   optional    property  <<>> when undefined, <<v>> when set to v.       *)
(*   null        <<>>, a returned string s is <<s>>.                       *)
(*   value       [t, s, n]: t is the typeof tag, s the characters of a     *)
(*               string, n the number (or 1/0 for true/false, or the time  *)
(*               in milliseconds of a Date); a function is                 *)
(*               [t |-> "function", returns |-> the value it returns].     *)
(*   schema      the record schema._zod.def; a wrapper's def.innerType is  *)
(*               the def of the wrapped schema.                            *)
(***************************************************************************)
EXTENDS Integers, Sequences, FiniteSets, TLC

VARIABLES op, input, output, done, now, invoked

vars == <<op, input, output, done, now, invoked>>

----------------------------------------------------------------------------
(* Bounds of the explored inputs *)

MaxDepth == 2
MaxValues == 2
MaxChecks == 2
MaxOptions == 2
MaxColumns == 2
MaxKeys == 2
MaxIndexes == 2
MaxNow == 1

----------------------------------------------------------------------------
(* JavaScript strings, arrays and optional properties *)

None == <<>>
Some(x) == <<x>>
IsSet(o) == o # <<>>
Get(o) == o[1]

RECURSIVE Concat(_)
Concat(ss) == IF ss = <<>> THEN <<>> ELSE Head(ss) \o Concat(Tail(ss))

\* Array.prototype.join
RECURSIVE join(_, _)
join(parts, sep) ==
    IF parts = <<>> THEN <<>>
    ELSE IF Len(parts) = 1 THEN parts[1]
    ELSE parts[1] \o sep \o join(Tail(parts), sep)

\* str.replace(/'/g, "''")
RECURSIVE replaceQuotes(_)
replaceQuotes(s) ==
    IF s = <<>> THEN <<>>
    ELSE (IF Head(s) = "'" THEN <<"'", "'">> ELSE <<Head(s)>>) \o replaceQuotes(Tail(s))

\* All sequences over S of length lo..hi
SeqsBetween(S, lo, hi) == UNION {[1..n -> S] : n \in lo..hi}

----------------------------------------------------------------------------
(* JavaScript values *)

StringValue(s) == [t |-> "string", s |-> s, n |-> 0]
NumberValue(n) == [t |-> "number", s |-> <<>>, n |-> n]
BooleanValue(b) == [t |-> "boolean", s |-> <<>>, n |-> IF b THEN 1 ELSE 0]
NullValue == [t |-> "null", s |-> <<>>, n |-> 0]
UndefinedValue == [t |-> "undefined", s |-> <<>>, n |-> 0]

\* new Date(time), for a time within the first minute of 1970-01-01 UTC
DateValue(time) == [t |-> "date", s |-> <<>>, n |-> time]

\* String(n).padStart(width, '0')
RECURSIVE padStart(_, _)
padStart(digits, width) ==
    IF Len(digits) >= width THEN digits ELSE padStart("0" \o digits, width)

\* Date.prototype.toISOString
toISOString(date) ==
    <<"1970-01-01T00:00:", padStart(ToString(date.n \div 1000), 2), ".",
      padStart(ToString(date.n % 1000), 3), "Z">>

\* Date.prototype.toString, in the UTC time zone
DateToString(date) ==
    <<"Thu Jan 01 1970 00:00:", padStart(ToString(date.n \div 1000), 2),
      " GMT+0000 (Coordinated Universal Time)">>

\* String(value), which is also `${value}`
String(value) ==
    CASE value.t = "string" -> value.s
      [] value.t = "date" -> DateToString(value)
      [] value.t = "number" -> <<ToString(value.n)>>
      [] value.t = "boolean" -> IF value.n = 1 THEN <<"true">> ELSE <<"false">>
      [] value.t = "null" -> <<"null">>
      [] OTHER -> <<"undefined">>

Digits == {"0", "1", "2", "3", "4", "5", "6", "7", "8", "9"}

DigitValue(c) ==
    CASE c = "0" -> 0 [] c = "1" -> 1 [] c = "2" -> 2 [] c = "3" -> 3 [] c = "4" -> 4
      [] c = "5" -> 5 [] c = "6" -> 6 [] c = "7" -> 7 [] c = "8" -> 8 [] OTHER -> 9

RECURSIVE DecimalValue(_)
DecimalValue(s) ==
    IF s = <<>> THEN 0
    ELSE 10 * DecimalValue(SubSeq(s, 1, Len(s) - 1)) + DigitValue(s[Len(s)])

AllDigits(s) == \A i \in 1..Len(s) : s[i] \in Digits

\* Number(value): [nan, n]
Number(value) ==
    CASE value.t = "number" -> [nan |-> FALSE, n |-> value.n]
      [] value.t = "boolean" -> [nan |-> FALSE, n |-> value.n]
      [] value.t = "null" -> [nan |-> FALSE, n |-> 0]
      [] value.t = "date" -> [nan |-> FALSE, n |-> value.n]
      [] value.t = "string" ->
            IF AllDigits(value.s) THEN [nan |-> FALSE, n |-> DecimalValue(value.s)]
            ELSE [nan |-> TRUE, n |-> 0]
      [] OTHER -> [nan |-> TRUE, n |-> 0]

\* Boolean(value)
Boolean(value) ==
    CASE value.t = "string" -> value.s # <<>>
      [] value.t = "number" -> value.n # 0
      [] value.t = "boolean" -> value.n = 1
      [] value.t \in {"date", "function"} -> TRUE
      [] OTHER -> FALSE

FunctionValue(v) == [t |-> "function", returns |-> v]

\* () => Date.now()
DateNow == FunctionValue([t |-> "Date.now", s |-> <<>>, n |-> 0])

\* The call with every function reading the clock
invokeClock(f) == NumberValue(now)

\* f(): the value the function returns when called now
invoke(f) == IF f.returns.t = "Date.now" THEN NumberValue(now) ELSE f.returns

----------------------------------------------------------------------------
(* Zod schemas, as the compiler reads them: schema._zod.def *)

NoFormat == "undefined"

ZodString(format, checks) == [type |-> "string", format |-> format, checks |-> checks]
ZodNumber(format, checks) == [type |-> "number", format |-> format, checks |-> checks]
ZodLiteral(values) == [type |-> "literal", values |-> values]
ZodUnion(options) == [type |-> "union", options |-> options]
ZodOther(type) == [type |-> type]
ZodOptional(inner) == [type |-> "optional", innerType |-> inner]
ZodNullable(inner) == [type |-> "nullable", innerType |-> inner]
ZodDefault(inner, value) == [type |-> "default", innerType |-> inner, defaultValue |-> value]

\* A canonical array index ("0", "7", "10"): such property keys are enumerated
\* first, in ascending numeric order, whatever the insertion order.
IsArrayIndex(s) == s # <<>> /\ AllDigits(s) /\ (Len(s) = 1 \/ s[1] # "0")

RECURSIVE WithoutDuplicates(_)
WithoutDuplicates(xs) ==
    IF xs = <<>> THEN <<>>
    ELSE LET init == WithoutDuplicates(SubSeq(xs, 1, Len(xs) - 1))
             last == xs[Len(xs)]
         IN  IF \E i \in 1..Len(init) : init[i] = last THEN init ELSE Append(init, last)

\* The own enumerable string keys of an object whose keys were inserted in the
\* order `keys`.
OwnKeys(keys) ==
    LET distinct == WithoutDuplicates(keys)
        indexes == SelectSeq(distinct, IsArrayIndex)
        others == SelectSeq(distinct, LAMBDA k : ~IsArrayIndex(k))
    IN  SortSeq(indexes, LAMBDA a, b : DecimalValue(a) < DecimalValue(b)) \o others

\* def.entries of z.enum([...]): the object {v: v} for each declared v, as the
\* sequence of its properties in enumeration order.
EnumEntries(declared) ==
    [i \in 1..Len(OwnKeys(declared)) |->
        [key |-> OwnKeys(declared)[i], value |-> StringValue(OwnKeys(declared)[i])]]

\* `declared` is the argument of z.enum, kept to state properties; no code reads it
ZodEnum(declared) == [type |-> "enum", entries |-> EnumEntries(declared), declared |-> declared]

\* Object.values
ObjectValues(entries) == [i \in 1..Len(entries) |-> entries[i].value]

----------------------------------------------------------------------------
(* Zod validation: what schema.safeParse does with the schemas above *)

\* str.length
RECURSIVE stringLength(_)
stringLength(s) == IF s = <<>> THEN 0 ELSE Len(Head(s)) + stringLength(Tail(s))

\* The email format, on strings whose "@" and "." are atoms of their own: one
\* "@" after a local part, and a "." inside what follows it
isEmail(s) ==
    \E i \in 2..Len(s) :
        /\ s[i] = "@"
        /\ \A j \in 1..Len(s) : s[j] = "@" => j = i
        /\ \E j \in (i + 2)..(Len(s) - 1) : s[j] = "."

\* def.format of a string schema; only the email format is explored
stringFormatPasses(format, s) ==
    CASE format = NoFormat -> TRUE
      [] format = "email" -> isEmail(s)
      [] OTHER -> FALSE

stringCheckPasses(check, s) ==
    CASE check.check = "min_length" -> stringLength(s) >= check.minimum
      [] check.check = "max_length" -> stringLength(s) <= check.maximum
      [] check.check = "length_equals" -> stringLength(s) = check.length
      [] check.check = "string_format" -> stringFormatPasses(check.format, s)
      [] check.check = "custom" -> \A i \in 1..Len(check.rejected) : check.rejected[i] # StringValue(s)
      [] OTHER -> TRUE

\* def.format of a number schema; every number explored is a safe integer
numberFormatPasses(format, n) == format = "uint32" => n >= 0

numberCheckPasses(check, n) ==
    CASE check.check = "greater_than" ->
            IF check.inclusive THEN n >= check.value ELSE n > check.value
      [] check.check = "less_than" ->
            IF check.inclusive THEN n <= check.value ELSE n < check.value
      [] check.check = "multiple_of" -> n % check.value = 0
      [] check.check = "number_format" -> numberFormatPasses(check.format, n)
      [] check.check = "custom" -> \A i \in 1..Len(check.rejected) : check.rejected[i] # NumberValue(n)
      [] OTHER -> TRUE

\* schema.safeParse(value).success.  An optional or default layer passes
\* undefined without running the inner schema, a nullable layer passes null.
RECURSIVE accepts(_, _)
accepts(schema, value) ==
    CASE schema.type = "optional" -> value = UndefinedValue \/ accepts(schema.innerType, value)
      [] schema.type = "default" -> value = UndefinedValue \/ accepts(schema.innerType, value)
      [] schema.type = "nullable" -> value = NullValue \/ accepts(schema.innerType, value)
      [] schema.type = "string" ->
            /\ value.t = "string"
            /\ stringFormatPasses(schema.format, value.s)
            /\ \A i \in 1..Len(schema.checks) : stringCheckPasses(schema.checks[i], value.s)
      [] schema.type = "number" ->
            /\ value.t = "number"
            /\ numberFormatPasses(schema.format, value.n)
            /\ \A i \in 1..Len(schema.checks) : numberCheckPasses(schema.checks[i], value.n)
      [] schema.type = "enum" ->
            /\ value.t = "string"
            /\ \E i \in 1..Len(schema.entries) : schema.entries[i].value = value.s
      [] schema.type = "literal" -> \E i \in 1..Len(schema.values) : schema.values[i] = value
      [] schema.type = "union" -> \E i \in 1..Len(schema.options) : accepts(schema.options[i], value)
      [] schema.type \in {"boolean", "date", "null", "undefined"} -> value.t = schema.type
      [] schema.type \in {"any", "unknown"} -> TRUE
      [] OTHER -> FALSE

\* z.object(shape).safeParse(row): every key of the shape is parsed, a key the
\* row lacks as undefined, and the issues of all keys are collected; a row is
\* a function from keys to values, undefined for a key it lacks.
safeParse(shape, row) ==
    LET issues == {key \in DOMAIN shape : ~accepts(shape[key], row[key])}
    IN  [success |-> issues = {}, issues |-> issues]

----------------------------------------------------------------------------
(* utils/map-zod-type-to-sqlite.ts *)

\* The mapping with boolean and bigint stored as INTEGER
mapZodTypeToSQLiteInteger(zodType, schema) ==
    CASE zodType = "string" ->
            (CASE schema.format = "date" -> "DATE"
               [] schema.format = "datetime" -> "DATETIME"
               [] schema.format = "duration" -> "INTEGER"
               [] OTHER -> "TEXT")
      [] zodType = "date" -> "DATE"
      [] zodType = "number" ->
            (CASE schema.format \in {"safeint", "uint32", "int32"} -> "INTEGER"
               [] schema.format \in {"float32", "float64"} -> "FLOAT"
               [] OTHER -> "REAL")
      [] zodType \in {"boolean", "bigint"} -> "INTEGER"
      [] zodType \in {"null", "undefined"} -> "NULL"
      [] zodType = "file" -> "BLOB"
      [] OTHER -> "TEXT"

mapZodTypeToSQLite(zodType, schema) ==
    CASE zodType = "string" ->
            (CASE schema.format = "date" -> "DATE"
               [] schema.format = "datetime" -> "DATETIME"
               [] schema.format = "duration" -> "INTEGER"
               [] OTHER -> "TEXT")
      [] zodType = "date" -> "DATE"
      [] zodType \in {"enum", "literal", "template_literal", "array", "object"} -> "TEXT"
      [] zodType = "number" ->
            (CASE schema.format \in {"safeint", "uint32", "int32"} -> "INTEGER"
               [] schema.format \in {"float32", "float64"} -> "FLOAT"
               [] OTHER -> "REAL")
      [] zodType = "boolean" -> "BOOLEAN"
      [] zodType = "bigint" -> "BIGINT"
      [] zodType \in {"null", "undefined"} -> "NULL"
      [] zodType = "file" -> "BLOB"
      [] OTHER -> "TEXT"

----------------------------------------------------------------------------
(* utils/zod-to-sqlite.ts *)

\* The read with null read as undefined
getDefaultValueNullAsUndefined(definition) ==
    IF definition.defaultValue.t = "function"
    THEN [value |-> invoke(definition.defaultValue), invoked |-> <<definition.defaultValue>>]
    ELSE [value |-> IF definition.defaultValue = NullValue THEN UndefinedValue
                    ELSE definition.defaultValue,
          invoked |-> <<>>]

\* definition.defaultValue, read once: zod 4 defines the property of a default
\* layer as a getter over the payload of .default(), which calls a function
\* payload at every read. `invoked` lists the functions the read has called.
getDefaultValue(definition) ==
    IF definition.defaultValue.t = "function"
    THEN [value |-> invoke(definition.defaultValue), invoked |-> <<definition.defaultValue>>]
    ELSE [value |-> definition.defaultValue, invoked |-> <<>>]

\* typeof definition.defaultValue === 'function' ? definition.defaultValue()
\* : definition.defaultValue, given the read of the test and the read of the
\* branch taken
conditionalDefaultValueOf(test, branch) ==
    IF test.value.t = "function"
    THEN [value |-> invoke(branch.value),
          invoked |-> test.invoked \o branch.invoked \o <<branch.value>>]
    ELSE [value |-> branch.value, invoked |-> test.invoked \o branch.invoked]

\* Lines 25-27: definition.defaultValue is read twice
conditionalDefaultValue(definition) ==
    conditionalDefaultValueOf(getDefaultValue(definition), getDefaultValue(definition))

\* The loop with a default layer clearing `nullable`
RECURSIVE zodToSQLiteLoopDefaultClears(_, _, _)
zodToSQLiteLoopDefaultClears(currentSchema, nullable, defaultValue) ==
    IF currentSchema.type \in {"nullable", "optional"}
    THEN zodToSQLiteLoopDefaultClears(currentSchema.innerType, TRUE, defaultValue)
    ELSE IF currentSchema.type = "default"
    THEN zodToSQLiteLoopDefaultClears(currentSchema.innerType, FALSE,
                                      conditionalDefaultValue(currentSchema).value)
    ELSE [currentSchema |-> currentSchema, nullable |-> nullable, defaultValue |-> defaultValue]

\* The loop keeping the default of the first default layer it meets
RECURSIVE zodToSQLiteLoopFirstDefault(_, _, _)
zodToSQLiteLoopFirstDefault(currentSchema, nullable, defaultValue) ==
    IF currentSchema.type \in {"nullable", "optional"}
    THEN zodToSQLiteLoopFirstDefault(currentSchema.innerType, TRUE, defaultValue)
    ELSE IF currentSchema.type = "default"
    THEN zodToSQLiteLoopFirstDefault(currentSchema.innerType, nullable,
                                     IF defaultValue = UndefinedValue
                                     THEN conditionalDefaultValue(currentSchema).value
                                     ELSE defaultValue)
    ELSE [currentSchema |-> currentSchema, nullable |-> nullable, defaultValue |-> defaultValue]

\* The while (true) loop: one iteration per call
RECURSIVE zodToSQLiteLoop(_, _, _)
zodToSQLiteLoop(currentSchema, nullable, defaultValue) ==
    IF currentSchema.type \in {"nullable", "optional"}
    THEN zodToSQLiteLoop(currentSchema.innerType, TRUE, defaultValue)
    ELSE IF currentSchema.type = "default"
    THEN zodToSQLiteLoop(currentSchema.innerType, nullable,
                         conditionalDefaultValue(currentSchema).value)
    ELSE [currentSchema |-> currentSchema, nullable |-> nullable, defaultValue |-> defaultValue]

\* Lines 33-35, with the locals the loop ended with
zodToSQLiteEnd(schema, end) ==
    [SQLiteType |-> mapZodTypeToSQLite(end.currentSchema.type, end.currentSchema),
     nullable |-> end.nullable,
     defaultValue |-> end.defaultValue,
     schema |-> schema]

zodToSQLite(schema) == zodToSQLiteEnd(schema, zodToSQLiteLoop(schema, FALSE, UndefinedValue))

\* The locals of zodToSQLite before the loop (lines 14-16); `iterations`
\* counts the passes that did not break, `returned` holds the result
zodToSQLiteEntry(schema) ==
    [currentSchema |-> schema, nullable |-> FALSE, defaultValue |-> UndefinedValue,
     iterations |-> 0, returned |-> None]

\* A pass peeling two layers where there are two
zodToSQLiteIterationTwoLayers(locals) ==
    LET inner == locals.currentSchema.innerType
    IN  [locals EXCEPT !.currentSchema = IF inner.type \in {"nullable", "optional", "default"}
                                         THEN inner.innerType ELSE inner,
                       !.nullable = TRUE,
                       !.iterations = @ + 1]

\* One pass of the while (true) loop that does not break (lines 19-28)
zodToSQLiteIteration(locals) ==
    IF locals.currentSchema.type \in {"nullable", "optional"}
    THEN [locals EXCEPT !.nullable = TRUE,
                        !.currentSchema = locals.currentSchema.innerType,
                        !.iterations = @ + 1]
    ELSE [locals EXCEPT !.defaultValue = conditionalDefaultValue(locals.currentSchema).value,
                        !.currentSchema = locals.currentSchema.innerType,
                        !.iterations = @ + 1]

\* break, and lines 33-35
zodToSQLiteReturn(schema, locals) ==
    [locals EXCEPT !.returned =
        Some([SQLiteType |-> mapZodTypeToSQLite(locals.currentSchema.type, locals.currentSchema),
              nullable |-> locals.nullable,
              defaultValue |-> locals.defaultValue,
              schema |-> schema])]

\* The default functions one zodToSQLite call has called, in order: those the
\* reads of lines 25-27 call, at each default layer the loop passes
RECURSIVE zodToSQLiteInvoked(_)
zodToSQLiteInvoked(schema) ==
    IF schema.type \in {"nullable", "optional"}
    THEN zodToSQLiteInvoked(schema.innerType)
    ELSE IF schema.type = "default"
    THEN conditionalDefaultValue(schema).invoked \o zodToSQLiteInvoked(schema.innerType)
    ELSE <<>>

----------------------------------------------------------------------------
(* utils/format-default-value.ts *)

NumberToString(num) == IF num.nan THEN <<"NaN">> ELSE <<ToString(num.n)>>

\* The formatter without a case for BOOLEAN, which the default case then quotes
formatDefaultValueNoBoolean(value, SQLiteType) ==
    CASE SQLiteType = "TEXT" -> <<"DEFAULT ", "'">> \o replaceQuotes(String(value)) \o <<"'">>
      [] SQLiteType \in {"INTEGER", "REAL"} -> <<"DEFAULT ">> \o NumberToString(Number(value))
      [] SQLiteType = "NULL" -> <<"DEFAULT NULL">>
      [] OTHER -> <<"DEFAULT ", "'">> \o String(value) \o <<"'">>

formatDefaultValue(value, SQLiteType) ==
    CASE SQLiteType = "TEXT" -> <<"DEFAULT ", "'">> \o replaceQuotes(String(value)) \o <<"'">>
      [] SQLiteType \in {"INTEGER", "REAL"} -> <<"DEFAULT ">> \o NumberToString(Number(value))
      [] SQLiteType = "BOOLEAN" -> <<"DEFAULT ", IF Boolean(value) THEN "1" ELSE "0">>
      [] SQLiteType = "NULL" -> <<"DEFAULT NULL">>
      [] OTHER -> <<"DEFAULT ", "'">> \o String(value) \o <<"'">>

----------------------------------------------------------------------------
(* utils/format-check-constraint.ts *)

\* The while (true) loop that unwraps the wrappers
\* The loop stopping at a default layer
RECURSIVE formatCheckConstraintUnwrapNoDefault(_)
formatCheckConstraintUnwrapNoDefault(currentSchema) ==
    IF currentSchema.type \in {"nullable", "optional"}
    THEN formatCheckConstraintUnwrapNoDefault(currentSchema.innerType)
    ELSE currentSchema

RECURSIVE formatCheckConstraintUnwrap(_)
formatCheckConstraintUnwrap(currentSchema) ==
    IF currentSchema.type \in {"nullable", "optional", "default"}
    THEN formatCheckConstraintUnwrap(currentSchema.innerType)
    ELSE currentSchema

\* The quoting with every value quoted, strings or not
quoteLiteralAlways(value) == <<"'">> \o replaceQuotes(String(value)) \o <<"'">>

\* value => typeof value === 'string' ? `'${value.replace(/'/g, "''")}'` : String(value)
quoteLiteral(value) ==
    IF value.t = "string"
    THEN <<"'">> \o replaceQuotes(value.s) \o <<"'">>
    ELSE String(value)

\* value => `'${String(value).replace(/'/g, "''")}'`
quoteEnumValue(value) == <<"'">> \o replaceQuotes(String(value)) \o <<"'">>

\* `CHECK(${name} IN (${quotedValues}))`
checkIn(name, quotedValues) == <<"CHECK(">> \o name \o <<" IN (">> \o quotedValues \o <<"))">>

\* The flattening with each option's values put before those collected so far
RECURSIVE unionValuesPrepended(_)
unionValuesPrepended(options) ==
    IF options = <<>> THEN <<>>
    ELSE unionValuesPrepended(Tail(options)) \o options[1].values

\* for (const option of options) values.push(...option._zod.def.values)
RECURSIVE unionValues(_)
unionValues(options) ==
    IF options = <<>> THEN <<>>
    ELSE options[1].values \o unionValues(Tail(options))

\* The conjuncts with the upper bound rendered as a strict comparison
numberConstraintStrictMaximum(name, check, constraints) ==
    CASE check.check = "greater_than" ->
            Append(constraints, name \o <<" >= ", ToString(check.value)>>)
      [] check.check = "less_than" ->
            Append(constraints, name \o <<" < ", ToString(check.value)>>)
      [] OTHER -> constraints

\* case 'number': the body of the for loop over checks, applied to `constraints`
numberConstraint(name, check, constraints) ==
    CASE check.check = "greater_than" ->
            Append(constraints, name \o <<" >= ", ToString(check.value)>>)
      [] check.check = "less_than" ->
            Append(constraints, name \o <<" <= ", ToString(check.value)>>)
      [] OTHER -> constraints

\* The loop taking the minimums before the maximums
RECURSIVE numberConstraintsMinimumFirst(_, _, _)
numberConstraintsMinimumFirst(name, checks, constraints) ==
    LET sorted == SelectSeq(checks, LAMBDA c : c.check = "greater_than")
                  \o SelectSeq(checks, LAMBDA c : c.check # "greater_than")
    IN  IF checks = <<>> THEN constraints
        ELSE IF sorted # checks THEN numberConstraintsMinimumFirst(name, sorted, constraints)
        ELSE numberConstraintsMinimumFirst(name, Tail(checks), numberConstraint(name, Head(checks), constraints))

\* for (const check of checks), case 'number'
RECURSIVE numberConstraints(_, _, _)
numberConstraints(name, checks, constraints) ==
    IF checks = <<>> THEN constraints
    ELSE numberConstraints(name, Tail(checks), numberConstraint(name, Head(checks), constraints))

\* The conjuncts with one for a custom predicate too
stringConstraintCustom(name, check, constraints) ==
    CASE check.check = "min_length" ->
            Append(constraints, <<"length(">> \o name \o <<") >= ", ToString(check.minimum)>>)
      [] check.check = "max_length" ->
            Append(constraints, <<"length(">> \o name \o <<") <= ", ToString(check.maximum)>>)
      [] check.check = "length_equals" ->
            Append(constraints, <<"length(">> \o name \o <<") = ", ToString(check.length)>>)
      [] check.check = "custom" ->
            Append(constraints, <<"custom(">> \o name \o <<")">>)
      [] OTHER -> constraints

\* case 'string': the body of the for loop over checks, applied to `constraints`
stringConstraint(name, check, constraints) ==
    CASE check.check = "min_length" ->
            Append(constraints, <<"length(">> \o name \o <<") >= ", ToString(check.minimum)>>)
      [] check.check = "max_length" ->
            Append(constraints, <<"length(">> \o name \o <<") <= ", ToString(check.maximum)>>)
      [] check.check = "length_equals" ->
            Append(constraints, <<"length(">> \o name \o <<") = ", ToString(check.length)>>)
      [] OTHER -> constraints

RECURSIVE stringConstraints(_, _, _)
stringConstraints(name, checks, constraints) ==
    IF checks = <<>> THEN constraints
    ELSE stringConstraints(name, Tail(checks), stringConstraint(name, Head(checks), constraints))

\* The CHECK clause built without the test for an empty list
checkAllUnguarded(constraints) ==
    Some(<<"CHECK(">> \o join(constraints, <<" AND ">>) \o <<")">>)

\* constraints.length > 0 ? `CHECK(${constraints.join(' AND ')})` : null
checkAll(constraints) ==
    IF Len(constraints) > 0
    THEN Some(<<"CHECK(">> \o join(constraints, <<" AND ">>) \o <<")">>)
    ELSE None

\* def.checks is undefined for a schema without checks: modelled as <<>>, for
\* which both `if (!checks) return null` and the empty loop return null.
formatCheckConstraint(name, schema) ==
    LET definition == formatCheckConstraintUnwrap(schema)
        zodType == definition.type
    IN  CASE zodType = "enum" ->
                LET values == ObjectValues(definition.entries)
                IN  Some(checkIn(name, join([i \in 1..Len(values) |-> quoteEnumValue(values[i])], <<", ">>)))
          [] zodType = "literal" ->
                IF Len(definition.values) = 1
                THEN IF definition.values[1].t = "string"
                     THEN Some(<<"CHECK(">> \o name \o <<" = ", "'">>
                               \o replaceQuotes(definition.values[1].s) \o <<"'", ")">>)
                     ELSE Some(<<"CHECK(">> \o name \o <<" = ">>
                               \o String(definition.values[1]) \o <<")">>)
                ELSE Some(checkIn(name, join([i \in 1..Len(definition.values) |->
                                                quoteLiteral(definition.values[i])], <<", ">>)))
          [] zodType = "union" ->
                IF \A i \in 1..Len(definition.options) : definition.options[i].type = "literal"
                THEN LET values == unionValues(definition.options)
                     IN  Some(checkIn(name, join([i \in 1..Len(values) |-> quoteLiteral(values[i])], <<", ">>)))
                ELSE None
          [] zodType = "number" -> checkAll(numberConstraints(name, definition.checks, <<>>))
          [] zodType = "string" -> checkAll(stringConstraints(name, definition.checks, <<>>))
          [] OTHER -> None

----------------------------------------------------------------------------
(* core/column-definitions.ts, core/primary-key-constraint.ts,
   core/index-statements.ts, core/table.ts *)

pushIf(parts, condition, part) == IF condition THEN Append(parts, part) ELSE parts

\* The column definition with ON UPDATE pushed before ON DELETE
buildColumnDefinitionUpdateFirst(column) ==
    LET z == zodToSQLite(column.schema)
        parts2 == <<column.name, <<z.SQLiteType>>>>
        parts3 == pushIf(parts2, ~z.nullable, <<"NOT NULL">>)
        parts4 == IF z.defaultValue # UndefinedValue
                  THEN Append(parts3, formatDefaultValue(z.defaultValue, z.SQLiteType))
                  ELSE parts3
        parts5 == pushIf(parts4, column.unique, <<"UNIQUE">>)
        checkConstraint == formatCheckConstraint(column.name, column.schema)
        parts6 == IF IsSet(checkConstraint) /\ Get(checkConstraint) # <<>>
                  THEN Append(parts5, Get(checkConstraint))
                  ELSE parts5
        parts9 == IF IsSet(column.references)
                  THEN LET r == Get(column.references)
                           parts7 == Append(parts6, <<"REFERENCES ">> \o r.table \o <<"(">> \o r.column \o <<")">>)
                           parts8 == IF IsSet(r.onUpdate) /\ Get(r.onUpdate) # <<>>
                                     THEN Append(parts7, <<"ON UPDATE ">> \o Get(r.onUpdate))
                                     ELSE parts7
                       IN  IF IsSet(r.onDelete) /\ Get(r.onDelete) # <<>>
                           THEN Append(parts8, <<"ON DELETE ">> \o Get(r.onDelete))
                           ELSE parts8
                  ELSE parts6
    IN  join(parts9, <<" ">>)

\* column: [name, schema, unique, references]; references is optional and
\* holds [table, column, onDelete, onUpdate], the two actions optional
buildColumnDefinition(column) ==
    LET z == zodToSQLite(column.schema)
        parts2 == <<column.name, <<z.SQLiteType>>>>
        parts3 == pushIf(parts2, ~z.nullable, <<"NOT NULL">>)
        parts4 == IF z.defaultValue # UndefinedValue
                  THEN Append(parts3, formatDefaultValue(z.defaultValue, z.SQLiteType))
                  ELSE parts3
        parts5 == pushIf(parts4, column.unique, <<"UNIQUE">>)
        checkConstraint == formatCheckConstraint(column.name, column.schema)
        parts6 == IF IsSet(checkConstraint) /\ Get(checkConstraint) # <<>>
                  THEN Append(parts5, Get(checkConstraint))
                  ELSE parts5
        parts9 == IF IsSet(column.references)
                  THEN LET r == Get(column.references)
                           parts7 == Append(parts6, <<"REFERENCES ">> \o r.table \o <<"(">> \o r.column \o <<")">>)
                           parts8 == IF IsSet(r.onDelete) /\ Get(r.onDelete) # <<>>
                                     THEN Append(parts7, <<"ON DELETE ">> \o Get(r.onDelete))
                                     ELSE parts7
                       IN  IF IsSet(r.onUpdate) /\ Get(r.onUpdate) # <<>>
                           THEN Append(parts8, <<"ON UPDATE ">> \o Get(r.onUpdate))
                           ELSE parts8
                  ELSE parts6
    IN  join(parts9, <<" ">>)

\* The default functions one buildColumnDefinition call has called: those of
\* its zodToSQLite call; formatCheckConstraint reads no default value
buildColumnDefinitionInvoked(column) == zodToSQLiteInvoked(column.schema)

buildPrimaryKeyConstraint(primaryKeys) ==
    IF Len(primaryKeys) = 0 THEN <<>>
    ELSE <<"PRIMARY KEY (">> \o join(primaryKeys, <<", ">>) \o <<")">>

\* The statement with the unique flag ignored
indexStatementNeverUnique(tableName, index) ==
    LET whereClause == IF IsSet(index.where) /\ Get(index.where) # <<>>
                       THEN <<" WHERE ">> \o Get(index.where)
                       ELSE <<>>
    IN  <<"CREATE ">> \o <<"INDEX ">> \o index.name \o <<" ON ">> \o tableName
        \o <<" (">> \o join(index.columns, <<", ">>) \o <<")">> \o whereClause \o <<";">>

\* index: [name, columns, unique, where]; where is optional
indexStatement(tableName, index) ==
    LET uniqueClause == IF index.unique THEN <<"UNIQUE ">> ELSE <<>>
        whereClause == IF IsSet(index.where) /\ Get(index.where) # <<>>
                       THEN <<" WHERE ">> \o Get(index.where)
                       ELSE <<>>
    IN  <<"CREATE ">> \o uniqueClause \o <<"INDEX ">> \o index.name \o <<" ON ">> \o tableName
        \o <<" (">> \o join(index.columns, <<", ">>) \o <<")">> \o whereClause \o <<";">>

\* indexes is optional
buildIndexStatements(tableName, indexes) ==
    IF ~IsSet(indexes) \/ Len(Get(indexes)) = 0 THEN <<>>
    ELSE [i \in 1..Len(Get(indexes)) |-> indexStatement(tableName, Get(indexes)[i])]

\* The shape with every column's wrappers taken off
buildZodSchemaUnwrapped(columns) ==
    LET keys == {columns[i].name : i \in 1..Len(columns)} \ {<<"__proto__">>}
        lastOf(k) == CHOOSE i \in 1..Len(columns) :
                        /\ columns[i].name = k
                        /\ \A j \in 1..Len(columns) : columns[j].name = k => j <= i
    IN  [k \in keys |-> formatCheckConstraintUnwrap(columns[lastOf(k)].schema)]

\* z.object(schemaShape): the shape, as the function from its keys to schemas.
\* schemaShape is a plain object ({}): the assignment schemaShape['__proto__'] =
\* schema sets the object's prototype and stores no key.
buildZodSchema(columns) ==
    LET keys == {columns[i].name : i \in 1..Len(columns)} \ {<<"__proto__">>}
        lastOf(k) == CHOOSE i \in 1..Len(columns) :
                        /\ columns[i].name = k
                        /\ \A j \in 1..Len(columns) : columns[j].name = k => j <= i
    IN  [k \in keys |-> columns[lastOf(k)].schema]

\* The default functions one createTable call has called: columns.map calls
\* buildColumnDefinition once per column, in order; buildZodSchema stores the
\* rules without reading them
RECURSIVE createTableInvokedFrom(_, _)
createTableInvokedFrom(columns, i) ==
    IF i > Len(columns) THEN <<>>
    ELSE buildColumnDefinitionInvoked(columns[i]) \o createTableInvokedFrom(columns, i + 1)

createTableInvoked(config) == createTableInvokedFrom(config.columns, 1)

\* The table with the primary-key clause put before the columns
createTablePrimaryKeyFirst(config) ==
    LET columnDefs == [i \in 1..Len(config.columns) |-> buildColumnDefinition(config.columns[i])]
        primaryKeyConstraint == buildPrimaryKeyConstraint(config.primaryKeys)
        tableElements == SelectSeq(<<primaryKeyConstraint>> \o columnDefs, LAMBDA e : e # <<>>)
        createTableSQL == <<"CREATE TABLE ">> \o config.name \o <<" (", "\n", "  ">>
                          \o join(tableElements, <<",", "\n", "  ">>) \o <<"\n", ");">>
    IN  [table |-> createTableSQL,
         indexes |-> buildIndexStatements(config.name, config.indexes),
         schema |-> buildZodSchema(config.columns)]

\* The table with the empty elements left in
createTableUnfiltered(config) ==
    LET columnDefs == [i \in 1..Len(config.columns) |-> buildColumnDefinition(config.columns[i])]
        primaryKeyConstraint == buildPrimaryKeyConstraint(config.primaryKeys)
        tableElements == Append(columnDefs, primaryKeyConstraint)
        createTableSQL == <<"CREATE TABLE ">> \o config.name \o <<" (", "\n", "  ">>
                          \o join(tableElements, <<",", "\n", "  ">>) \o <<"\n", ");">>
    IN  [table |-> createTableSQL,
         indexes |-> buildIndexStatements(config.name, config.indexes),
         schema |-> buildZodSchema(config.columns)]

\* config: [name, columns, primaryKeys, indexes]
createTable(config) ==
    LET columnDefs == [i \in 1..Len(config.columns) |-> buildColumnDefinition(config.columns[i])]
        primaryKeyConstraint == buildPrimaryKeyConstraint(config.primaryKeys)
        tableElements == SelectSeq(Append(columnDefs, primaryKeyConstraint), LAMBDA e : e # <<>>)
        createTableSQL == <<"CREATE TABLE ">> \o config.name \o <<" (", "\n", "  ">>
                          \o join(tableElements, <<",", "\n", "  ">>) \o <<"\n", ");">>
    IN  [table |-> createTableSQL,
         indexes |-> buildIndexStatements(config.name, config.indexes),
         schema |-> buildZodSchema(config.columns)]

\* The locals of one createTable call on entry (line 21): nothing built yet;
\* `pc` is the statement to run next and `steps` counts the statements run
createTableEntry(config) ==
    [config |-> config, pc |-> "columnDefs", steps |-> 0,
     columnDefs |-> <<>>, primaryKeyConstraint |-> <<>>, tableElements |-> <<>>,
     createTableSQL |-> <<>>, createIndexesSQL |-> <<>>, zodSchema |-> None, returned |-> None]

\* The statement with columnDefs kept in one place for all calls
createTableStepSharedColumnDefs(calls, call) ==
    LET locals == calls[call]
        config == locals.config
        columnDefs == calls[1].columnDefs
        after ==
            CASE locals.pc = "columnDefs" ->
                    IF Len(columnDefs) < Len(config.columns)
                    THEN [locals EXCEPT !.columnDefs =
                            Append(columnDefs, buildColumnDefinition(config.columns[Len(columnDefs) + 1]))]
                    ELSE [locals EXCEPT !.pc = "primaryKeyConstraint"]
              [] locals.pc = "primaryKeyConstraint" ->
                    [locals EXCEPT !.primaryKeyConstraint = buildPrimaryKeyConstraint(config.primaryKeys),
                                   !.pc = "tableElements"]
              [] locals.pc = "tableElements" ->
                    [locals EXCEPT !.tableElements =
                                        SelectSeq(Append(columnDefs, locals.primaryKeyConstraint),
                                                  LAMBDA e : e # <<>>),
                                   !.pc = "createTableSQL"]
              [] locals.pc = "createTableSQL" ->
                    [locals EXCEPT !.createTableSQL =
                                        <<"CREATE TABLE ">> \o config.name \o <<" (", "\n", "  ">>
                                        \o join(locals.tableElements, <<",", "\n", "  ">>) \o <<"\n", ");">>,
                                   !.pc = "createIndexesSQL"]
              [] locals.pc = "createIndexesSQL" ->
                    [locals EXCEPT !.createIndexesSQL = buildIndexStatements(config.name, config.indexes),
                                   !.pc = "zodSchema"]
              [] locals.pc = "zodSchema" ->
                    [locals EXCEPT !.zodSchema = Some(buildZodSchema(config.columns)),
                                   !.pc = "return"]
              [] OTHER ->
                    [locals EXCEPT !.returned = Some([table |-> locals.createTableSQL,
                                                      indexes |-> locals.createIndexesSQL,
                                                      schema |-> Get(locals.zodSchema)]),
                                   !.pc = "returned"]
    IN  [calls EXCEPT ![1].columnDefs = after.columnDefs,
                      ![call] = [after EXCEPT !.steps = @ + 1,
                                              !.columnDefs = IF call = 1 THEN @ ELSE locals.columnDefs]]

\* One statement of createTable, run by call `call` of the calls in progress:
\* a buildColumnDefinition call of columns.map (line 24), then lines 27, 30,
\* 33-35, 38, 41 and the return (43-47), each on the locals of that call
createTableStep(calls, call) ==
    LET locals == calls[call]
        config == locals.config
        after ==
            CASE locals.pc = "columnDefs" ->
                    IF Len(locals.columnDefs) < Len(config.columns)
                    THEN [locals EXCEPT !.columnDefs =
                            Append(@, buildColumnDefinition(config.columns[Len(locals.columnDefs) + 1]))]
                    ELSE [locals EXCEPT !.pc = "primaryKeyConstraint"]
              [] locals.pc = "primaryKeyConstraint" ->
                    [locals EXCEPT !.primaryKeyConstraint = buildPrimaryKeyConstraint(config.primaryKeys),
                                   !.pc = "tableElements"]
              [] locals.pc = "tableElements" ->
                    [locals EXCEPT !.tableElements =
                                        SelectSeq(Append(locals.columnDefs, locals.primaryKeyConstraint),
                                                  LAMBDA e : e # <<>>),
                                   !.pc = "createTableSQL"]
              [] locals.pc = "createTableSQL" ->
                    [locals EXCEPT !.createTableSQL =
                                        <<"CREATE TABLE ">> \o config.name \o <<" (", "\n", "  ">>
                                        \o join(locals.tableElements, <<",", "\n", "  ">>) \o <<"\n", ");">>,
                                   !.pc = "createIndexesSQL"]
              [] locals.pc = "createIndexesSQL" ->
                    [locals EXCEPT !.createIndexesSQL = buildIndexStatements(config.name, config.indexes),
                                   !.pc = "zodSchema"]
              [] locals.pc = "zodSchema" ->
                    [locals EXCEPT !.zodSchema = Some(buildZodSchema(config.columns)),
                                   !.pc = "return"]
              [] OTHER ->
                    [locals EXCEPT !.returned = Some([table |-> locals.createTableSQL,
                                                      indexes |-> locals.createIndexesSQL,
                                                      schema |-> Get(locals.zodSchema)]),
                                   !.pc = "returned"]
    IN  [calls EXCEPT ![call] = [after EXCEPT !.steps = @ + 1]]

\* The default functions the statement calls
createTableStepInvoked(locals) ==
    IF locals.pc = "columnDefs" /\ Len(locals.columnDefs) < Len(locals.config.columns)
    THEN buildColumnDefinitionInvoked(locals.config.columns[Len(locals.columnDefs) + 1])
    ELSE <<>>

----------------------------------------------------------------------------
(* utils/converter.ts, the module index.ts takes createTable from.  Its
   buildPrimaryKeyConstraint, buildIndexStatements and buildZodSchema are,
   line for line, those of core above. *)

\* ZodNumber's isInt: an integer format, or a multipleOf that is an integer
isInt(schema) ==
    \/ schema.format \in {"safeint", "int32", "uint32"}
    \/ \E i \in 1..Len(schema.checks) : schema.checks[i].check = "multiple_of"

converterMapZodTypeToSQLite(zodType, schema) ==
    CASE zodType \in {"string", "enum", "literal", "template_literal", "date", "array", "object"} -> "TEXT"
      [] zodType = "number" -> IF isInt(schema) THEN "INTEGER" ELSE "REAL"
      [] zodType \in {"bigint", "boolean"} -> "INTEGER"
      [] zodType \in {"null", "undefined"} -> "NULL"
      [] zodType = "file" -> "BLOB"
      [] OTHER -> "TEXT"

converterZodToSQLiteEnd(schema, end) ==
    [SQLiteType |-> converterMapZodTypeToSQLite(end.currentSchema.type, end.currentSchema),
     nullable |-> end.nullable,
     defaultValue |-> end.defaultValue,
     schema |-> schema]

converterZodToSQLite(schema) ==
    converterZodToSQLiteEnd(schema, zodToSQLiteLoop(schema, FALSE, UndefinedValue))

converterFormatDefaultValue(value, SQLiteType) ==
    CASE SQLiteType = "TEXT" -> <<"DEFAULT ", "'">> \o replaceQuotes(String(value)) \o <<"'">>
      [] SQLiteType \in {"INTEGER", "REAL"} -> <<"DEFAULT ">> \o NumberToString(Number(value))
      [] SQLiteType = "NULL" -> <<"DEFAULT NULL">>
      [] OTHER -> <<"DEFAULT ", "'">> \o String(value) \o <<"'">>

\* No CHECK clause is built
converterBuildColumnDefinition(column) ==
    LET z == converterZodToSQLite(column.schema)
        parts2 == <<column.name, <<z.SQLiteType>>>>
        parts3 == pushIf(parts2, ~z.nullable, <<"NOT NULL">>)
        parts4 == IF z.defaultValue # UndefinedValue
                  THEN Append(parts3, converterFormatDefaultValue(z.defaultValue, z.SQLiteType))
                  ELSE parts3
        parts5 == pushIf(parts4, column.unique, <<"UNIQUE">>)
        parts8 == IF IsSet(column.references)
                  THEN LET r == Get(column.references)
                           parts6 == Append(parts5, <<"REFERENCES ">> \o r.table \o <<"(">> \o r.column \o <<")">>)
                           parts7 == IF IsSet(r.onDelete) /\ Get(r.onDelete) # <<>>
                                     THEN Append(parts6, <<"ON DELETE ">> \o Get(r.onDelete))
                                     ELSE parts6
                       IN  IF IsSet(r.onUpdate) /\ Get(r.onUpdate) # <<>>
                           THEN Append(parts7, <<"ON UPDATE ">> \o Get(r.onUpdate))
                           ELSE parts7
                  ELSE parts5
    IN  join(parts8, <<" ">>)

converterCreateTable(config) ==
    LET columnDefs == [i \in 1..Len(config.columns) |-> converterBuildColumnDefinition(config.columns[i])]
        primaryKeyConstraint == buildPrimaryKeyConstraint(config.primaryKeys)
        tableElements == SelectSeq(Append(columnDefs, primaryKeyConstraint), LAMBDA e : e # <<>>)
        createTableSQL == <<"CREATE TABLE ">> \o config.name \o <<" (", "\n", "  ">>
                          \o join(tableElements, <<",", "\n", "  ">>) \o <<"\n", ");">>
    IN  [createTable |-> createTableSQL,
         createIndexes |-> buildIndexStatements(config.name, config.indexes),
         schema |-> buildZodSchema(config.columns)]

----------------------------------------------------------------------------
(* The explored arguments *)

Strings == {<<"a">>, <<"b">>, <<"it", "'", "s">>, <<"2">>, <<"1", "0">>, <<>>}

LiteralValues ==
    {StringValue(s) : s \in Strings}
    \cup {NumberValue(0), NumberValue(5), BooleanValue(TRUE), NullValue}

DefaultValues ==
    {StringValue(<<"it", "'", "s">>), NumberValue(0), BooleanValue(TRUE), NullValue,
     UndefinedValue, FunctionValue(StringValue(<<"a">>)), FunctionValue(UndefinedValue),
     DateValue(1500)}

\* The values zodToSQLite hands to the formatter: a function default has been
\* called, undefined is not formatted
FormattedValues ==
    {v \in DefaultValues : v.t \notin {"undefined", "function"}}
    \cup {StringValue(<<"2026-01-06">>), StringValue(<<"1", "0">>), StringValue(<<>>),
          NumberValue(5), BooleanValue(FALSE), DateValue(0)}

GreaterThan(value, inclusive) == [check |-> "greater_than", value |-> value, inclusive |-> inclusive]
LessThan(value, inclusive) == [check |-> "less_than", value |-> value, inclusive |-> inclusive]
MinLength(minimum) == [check |-> "min_length", minimum |-> minimum]
MaxLength(maximum) == [check |-> "max_length", maximum |-> maximum]
LengthEquals(length) == [check |-> "length_equals", length |-> length]

\* .refine(fn): the check zod appends for a custom predicate, the predicate
\* given by the values it rejects
Refine(rejected) == [check |-> "custom", rejected |-> rejected]

\* val => val.includes('@'), on the strings of Rows
IncludesAt == Refine(<<StringValue(<<"not-an-email">>), StringValue(<<"no">>)>>)

NumberChecks ==
    {GreaterThan(v, i) : v \in {0, 18}, i \in BOOLEAN}
    \cup {LessThan(120, i) : i \in BOOLEAN}
    \cup {[check |-> "multiple_of", value |-> 5], [check |-> "number_format", format |-> "safeint"],
          Refine(<<NumberValue(17)>>)}

StringChecks ==
    {MinLength(3), MinLength(5), MaxLength(20), LengthEquals(6),
     [check |-> "string_format", format |-> "email"], IncludesAt}

UnionOptions ==
    {ZodLiteral(<<StringValue(<<"a">>)>>),
     ZodLiteral(<<StringValue(<<"it", "'", "s">>), NumberValue(5)>>),
     ZodLiteral(<<NumberValue(0), StringValue(<<"b">>)>>),
     ZodString(NoFormat, <<>>),
     ZodOptional(ZodLiteral(<<StringValue(<<"a">>)>>))}

EnumLeaves == {ZodEnum(d) : d \in SeqsBetween(Strings, 1, MaxValues)}
LiteralLeaves == {ZodLiteral(v) : v \in SeqsBetween(LiteralValues, 1, MaxValues)}
UnionLeaves == {ZodUnion(o) : o \in SeqsBetween(UnionOptions, 1, MaxOptions)}
NumberLeaves == {ZodNumber(NoFormat, c) : c \in SeqsBetween(NumberChecks, 0, MaxChecks)}
StringLeaves == {ZodString(NoFormat, c) : c \in SeqsBetween(StringChecks, 0, MaxChecks)}

StringFormats == {NoFormat, "date", "datetime", "duration", "email", "uuid"}
NumberFormats == {NoFormat, "safeint", "uint32", "int32", "float32", "float64"}
OtherTypes ==
    {"date", "enum", "literal", "template_literal", "array", "object", "boolean", "bigint",
     "null", "undefined", "file", "union", "any", "unknown", "tuple", "record", "map", "set",
     "symbol", "nan", "void", "never", "readonly", "pipe"}

TypeLeaves ==
    {ZodString(f, <<>>) : f \in StringFormats}
    \cup {ZodString(NoFormat, <<MinLength(3), MaxLength(20)>>)}
    \cup {ZodNumber(f, <<>>) : f \in NumberFormats}
    \cup {ZodOther(t) : t \in OtherTypes \ {"enum", "literal", "union"}}
    \cup {ZodEnum(<<<<"a">>, <<"b">>>>), ZodLiteral(<<StringValue(<<"a">>)>>),
          ZodUnion(<<ZodLiteral(<<NumberValue(0)>>), ZodLiteral(<<NumberValue(5)>>)>>)}

RECURSIVE Wrapped(_, _)
Wrapped(leaves, depth) ==
    IF depth = 0 THEN leaves
    ELSE LET inner == Wrapped(leaves, depth - 1)
         IN  inner
             \cup {ZodOptional(s) : s \in inner}
             \cup {ZodNullable(s) : s \in inner}
             \cup {ZodDefault(s, v) : s \in inner, v \in DefaultValues}

Schemas == Wrapped(TypeLeaves, MaxDepth)

\* Two default layers with nothing, one layer or two layers between them
StackedSchemas ==
    LET leaves == {ZodString(NoFormat, <<>>), ZodNumber(NoFormat, <<>>)}
        inner == {ZodDefault(leaf, v) : leaf \in leaves, v \in DefaultValues}
        between == inner \cup {ZodOptional(s) : s \in inner}
                         \cup {ZodNullable(s) : s \in inner}
                         \cup {ZodNullable(ZodOptional(s)) : s \in inner}
    IN  {ZodDefault(s, v) : s \in between, v \in DefaultValues}

CheckSchemas ==
    EnumLeaves \cup LiteralLeaves \cup UnionLeaves \cup NumberLeaves \cup StringLeaves \cup Schemas

Names == {<<"id">>, <<"email">>}

SQLiteTypes ==
    {"TEXT", "INTEGER", "REAL", "BLOB", "NULL", "BOOLEAN", "BIGINT", "DATE", "DATETIME",
     "NUMERIC", "FLOAT"}

ColumnLeaves ==
    {ZodString(NoFormat, <<>>),
     ZodString(NoFormat, <<MinLength(3), MaxLength(20)>>),
     ZodString(NoFormat, <<IncludesAt>>),
     ZodString(NoFormat, <<MinLength(3), IncludesAt>>),
     ZodNumber("safeint", <<>>),
     ZodNumber(NoFormat, <<>>),
     ZodNumber(NoFormat, <<GreaterThan(0, TRUE)>>),
     ZodOther("boolean"),
     ZodEnum(<<<<"active">>, <<"inactive">>>>),
     ZodLiteral(<<StringValue(<<"premium">>)>>)}

References ==
    {None}
    \cup {Some([table |-> <<"users">>, column |-> <<"id">>, onDelete |-> d, onUpdate |-> u]) :
            d \in {None, Some(<<"CASCADE">>)}, u \in {None, Some(<<"SET NULL">>)}}

Columns ==
    [name : Names, schema : Wrapped(ColumnLeaves, MaxDepth), unique : BOOLEAN, references : References]

TableColumns ==
    {[name |-> <<"id">>, schema |-> ZodNumber("safeint", <<>>), unique |-> FALSE, references |-> None],
     [name |-> <<"email">>, schema |-> ZodString("email", <<>>), unique |-> TRUE, references |-> None],
     [name |-> <<"email">>, schema |-> ZodOptional(ZodString(NoFormat, <<MinLength(3)>>)),
      unique |-> FALSE, references |-> None],
     [name |-> <<"role">>, schema |-> ZodDefault(ZodEnum(<<<<"admin">>, <<"user">>>>), StringValue(<<"user">>)),
      unique |-> FALSE, references |-> None],
     [name |-> <<"user_id">>, schema |-> ZodNumber("safeint", <<>>), unique |-> FALSE,
      references |-> Some([table |-> <<"users">>, column |-> <<"id">>,
                           onDelete |-> Some(<<"CASCADE">>), onUpdate |-> None])],
     [name |-> <<"__proto__">>, schema |-> ZodString(NoFormat, <<>>), unique |-> FALSE,
      references |-> None],
     [name |-> <<>>, schema |-> ZodOptional(ZodString(NoFormat, <<>>)), unique |-> FALSE,
      references |-> None]}

KeyNames == {<<"id">>, <<"email">>, <<"missing">>}

\* The columns of the tables whose validator is put to use
ValidatedColumns ==
    {[name |-> <<"id">>, schema |-> ZodNumber("safeint", <<>>), unique |-> FALSE, references |-> None],
     [name |-> <<"email">>, schema |-> ZodString("email", <<>>), unique |-> TRUE, references |-> None],
     [name |-> <<"email">>, schema |-> ZodOptional(ZodString(NoFormat, <<MinLength(3)>>)),
      unique |-> FALSE, references |-> None],
     [name |-> <<"email">>, schema |-> ZodString(NoFormat, <<IncludesAt>>), unique |-> FALSE,
      references |-> None],
     [name |-> <<"age">>, schema |-> ZodNumber("safeint", <<GreaterThan(18, TRUE), LessThan(65, TRUE)>>),
      unique |-> FALSE, references |-> None],
     [name |-> <<"age">>,
      schema |-> ZodOptional(ZodNumber(NoFormat, <<GreaterThan(18, TRUE), LessThan(65, TRUE)>>)),
      unique |-> FALSE, references |-> None]}

ValidatedConfigs ==
    [name : {<<"users">>},
     columns : SeqsBetween(ValidatedColumns, 0, MaxColumns),
     primaryKeys : {<<<<"id">>>>},
     indexes : {None}]

\* The columns of the tables compiled twice
RepeatedColumns ==
    {[name |-> <<"email">>, schema |-> ZodString("email", <<>>), unique |-> FALSE, references |-> None],
     [name |-> <<"id">>, schema |-> ZodDefault(ZodNumber(NoFormat, <<>>), DateNow),
      unique |-> FALSE, references |-> None],
     [name |-> <<"name">>,
      schema |-> ZodDefault(ZodString(NoFormat, <<>>), FunctionValue(StringValue(<<"Favour Emeka">>))),
      unique |-> FALSE, references |-> None],
     [name |-> <<"active">>, schema |-> ZodDefault(ZodOther("boolean"), BooleanValue(TRUE)),
      unique |-> FALSE, references |-> None]}

RepeatedConfigs ==
    [name : {<<"users">>},
     columns : SeqsBetween(RepeatedColumns, 0, MaxColumns),
     primaryKeys : {<<>>, <<<<"id">>>>},
     indexes : {None,
                Some(<<[name |-> <<"idx_a">>, columns |-> <<<<"name">>>>, unique |-> TRUE, where |-> None]>>)}]

\* The rows handed to the validator
Rows ==
    {(<<"id">> :> id) @@ (<<"email">> :> email) @@ (<<"age">> :> age) :
        id \in {UndefinedValue, NumberValue(1), StringValue(<<"1">>)},
        email \in {UndefinedValue, StringValue(<<"test", "@", "example", ".", "com">>),
                   StringValue(<<"not-an-email">>), StringValue(<<"no">>)},
        age \in {UndefinedValue, NumberValue(17), NumberValue(18), NumberValue(65), NumberValue(66)}}

Indexes ==
    [name : {<<"idx_a">>, <<"idx_b">>},
     columns : {<<<<"email">>>>, <<<<"status">>, <<"email">>>>},
     unique : BOOLEAN,
     where : {None, Some(<<>>), Some(<<"status = ", "'", "active", "'">>)}]

TableIndexes ==
    {None, Some(<<>>),
     Some(<<[name |-> <<"idx_a">>, columns |-> <<<<"email">>>>, unique |-> TRUE, where |-> None]>>),
     Some(<<[name |-> <<"idx_b">>, columns |-> <<<<"status">>, <<"email">>>>, unique |-> FALSE,
             where |-> Some(<<"status = ", "'", "active", "'">>)],
            [name |-> <<"idx_a">>, columns |-> <<<<"email">>>>, unique |-> TRUE, where |-> None]>>)}

TableConfigs ==
    [name : {<<"users">>},
     columns : SeqsBetween(TableColumns, 0, MaxColumns),
     primaryKeys : SeqsBetween(KeyNames, 0, MaxKeys),
     indexes : TableIndexes]

----------------------------------------------------------------------------
(* The calls *)

Init ==
    /\ done = FALSE
    /\ now = 0
    /\ invoked = <<>>
    /\ output = <<>>
    /\ \/ op = "mapZodTypeToSQLite" /\ input \in TypeLeaves
       \/ op = "zodToSQLite" /\ input \in Schemas \cup StackedSchemas
       \/ op = "formatDefaultValue" /\ input \in [value : FormattedValues, SQLiteType : SQLiteTypes]
       \/ op = "formatCheckConstraint"
            /\ input \in [name : Names, schema : CheckSchemas \cup Wrapped(ColumnLeaves, MaxDepth)]
       \/ op = "buildColumnDefinition" /\ input \in Columns
       \/ op = "buildPrimaryKeyConstraint" /\ input \in SeqsBetween(KeyNames, 0, MaxKeys)
       \/ op = "buildIndexStatements"
            /\ input \in [tableName : {<<"users">>},
                          indexes : {None} \cup {Some(i) : i \in SeqsBetween(Indexes, 0, MaxIndexes)}]
       \/ op = "createTable" /\ input \in TableConfigs
       \/ op = "safeParse" /\ input \in [config : ValidatedConfigs, row : Rows]
       \/ op = "createTableTwice" /\ input \in RepeatedConfigs
       \/ op = "index.createTable" /\ input \in TableConfigs

MapZodTypeToSQLite ==
    /\ op = "mapZodTypeToSQLite"
    /\ ~done
    /\ output' = mapZodTypeToSQLite(input.type, input)
    /\ done' = TRUE
    /\ UNCHANGED <<op, input, now, invoked>>

ZodToSQLite ==
    /\ op = "zodToSQLite"
    /\ ~done
    /\ output' = zodToSQLite(input)
    /\ done' = TRUE
    /\ invoked' = zodToSQLiteInvoked(input)
    /\ UNCHANGED <<op, input, now>>

FormatDefaultValue ==
    /\ op = "formatDefaultValue"
    /\ ~done
    /\ output' = formatDefaultValue(input.value, input.SQLiteType)
    /\ done' = TRUE
    /\ UNCHANGED <<op, input, now, invoked>>

FormatCheckConstraint ==
    /\ op = "formatCheckConstraint"
    /\ ~done
    /\ output' = formatCheckConstraint(input.name, input.schema)
    /\ done' = TRUE
    /\ UNCHANGED <<op, input, now, invoked>>

BuildColumnDefinition ==
    /\ op = "buildColumnDefinition"
    /\ ~done
    /\ output' = buildColumnDefinition(input)
    /\ done' = TRUE
    /\ invoked' = buildColumnDefinitionInvoked(input)
    /\ UNCHANGED <<op, input, now>>

BuildPrimaryKeyConstraint ==
    /\ op = "buildPrimaryKeyConstraint"
    /\ ~done
    /\ output' = buildPrimaryKeyConstraint(input)
    /\ done' = TRUE
    /\ UNCHANGED <<op, input, now, invoked>>

BuildIndexStatements ==
    /\ op = "buildIndexStatements"
    /\ ~done
    /\ output' = buildIndexStatements(input.tableName, input.indexes)
    /\ done' = TRUE
    /\ UNCHANGED <<op, input, now, invoked>>

CreateTable ==
    /\ op = "createTable"
    /\ ~done
    /\ output' = createTable(input)
    /\ done' = TRUE
    /\ invoked' = createTableInvoked(input)
    /\ UNCHANGED <<op, input, now>>

\* const { table, schema } = createTable(config); schema.safeParse(row)
SafeParse ==
    /\ op = "safeParse"
    /\ ~done
    /\ output' = [created |-> createTable(input.config),
                  result |-> safeParse(createTable(input.config).schema, input.row)]
    /\ done' = TRUE
    /\ invoked' = createTableInvoked(input.config)
    /\ UNCHANGED <<op, input, now>>

\* index.ts: export { createTable } from './utils/converter'
IndexCreateTable ==
    /\ op = "index.createTable"
    /\ ~done
    /\ output' = converterCreateTable(input)
    /\ done' = TRUE
    /\ invoked' = createTableInvoked(input)
    /\ UNCHANGED <<op, input, now>>

\* createTable(config), called a first and then a second time with the same
\* configuration object; `output` collects the two results
CreateTableAgain ==
    /\ op = "createTableTwice"
    /\ ~done
    /\ output' = Append(output, createTable(input))
    /\ done' = (Len(output) = 1)
    /\ invoked' = invoked \o createTableInvoked(input)
    /\ UNCHANGED <<op, input, now>>

\* Time passes between the two calls
Tick ==
    /\ op = "createTableTwice"
    /\ Len(output) = 1
    /\ now < MaxNow
    /\ now' = now + 1
    /\ UNCHANGED <<op, input, output, done, invoked>>

Next ==
    \/ MapZodTypeToSQLite
    \/ ZodToSQLite
    \/ FormatDefaultValue
    \/ FormatCheckConstraint
    \/ BuildColumnDefinition
    \/ BuildPrimaryKeyConstraint
    \/ BuildIndexStatements
    \/ CreateTable
    \/ SafeParse
    \/ CreateTableAgain
    \/ Tick
    \/ IndexCreateTable

Spec == Init /\ [][Next]_vars

----------------------------------------------------------------------------
(* zodToSQLite, one pass of its loop at a time *)

LoopLeaves == {ZodString(NoFormat, <<MinLength(3)>>), ZodNumber("safeint", <<>>), ZodOther("boolean")}

LoopSchemas == Wrapped(LoopLeaves, MaxDepth) \cup StackedSchemas

ZodToSQLiteInit ==
    /\ op = "zodToSQLite"
    /\ input \in LoopSchemas
    /\ output = zodToSQLiteEntry(input)
    /\ done = FALSE
    /\ now = 0
    /\ invoked = <<>>

ZodToSQLiteIterate ==
    /\ ~done
    /\ output.currentSchema.type \in {"nullable", "optional", "default"}
    /\ output' = zodToSQLiteIteration(output)
    /\ invoked' = IF output.currentSchema.type = "default"
                  THEN invoked \o conditionalDefaultValue(output.currentSchema).invoked
                  ELSE invoked
    /\ UNCHANGED <<op, input, done, now>>

ZodToSQLiteBreak ==
    /\ ~done
    /\ output.currentSchema.type \notin {"nullable", "optional", "default"}
    /\ output' = zodToSQLiteReturn(input, output)
    /\ done' = TRUE
    /\ UNCHANGED <<op, input, now, invoked>>

ZodToSQLiteNext ==
    \/ ZodToSQLiteIterate
    \/ ZodToSQLiteBreak

\* The call runs to its end: nothing else is scheduled while it runs
ZodToSQLiteSpec == ZodToSQLiteInit /\ [][ZodToSQLiteNext]_vars /\ WF_vars(ZodToSQLiteNext)

----------------------------------------------------------------------------
(* Two createTable calls in progress at once *)

ConcurrentColumns ==
    {[name |-> <<"id">>, schema |-> ZodNumber("safeint", <<GreaterThan(0, TRUE)>>), unique |-> FALSE,
      references |-> None],
     [name |-> <<"name">>,
      schema |-> ZodDefault(ZodString(NoFormat, <<>>), FunctionValue(StringValue(<<"Favour Emeka">>))),
      unique |-> TRUE, references |-> None]}

\* Tables of different names, the second one with an index
ConcurrentUsers ==
    [name : {<<"users">>},
     columns : SeqsBetween(ConcurrentColumns, 0, MaxColumns),
     primaryKeys : {<<>>, <<<<"id">>>>},
     indexes : {None}]

ConcurrentPosts ==
    [name : {<<"posts">>},
     columns : SeqsBetween(ConcurrentColumns, 0, MaxColumns),
     primaryKeys : {<<>>, <<<<"id">>>>},
     indexes : {Some(<<[name |-> <<"idx_posts">>, columns |-> <<<<"name">>>>,
                        unique |-> FALSE, where |-> None]>>)}]

ConcurrentInit ==
    /\ op = "createTable"
    /\ \E first \in ConcurrentUsers, second \in ConcurrentPosts :
            /\ input = <<first, second>>
            /\ output = <<createTableEntry(first), createTableEntry(second)>>
    /\ done = FALSE
    /\ now = 0
    /\ invoked = <<>>

\* Either call runs its next statement
CreateTableStep ==
    \E call \in 1..2 :
        /\ output[call].pc # "returned"
        /\ output' = createTableStep(output, call)
        /\ invoked' = invoked \o createTableStepInvoked(output[call])
        /\ done' = \A c \in 1..2 : output'[c].pc = "returned"
        /\ UNCHANGED <<op, input, now>>

ConcurrentNext == CreateTableStep

ConcurrentSpec == ConcurrentInit /\ [][ConcurrentNext]_vars

----------------------------------------------------------------------------
(* Properties *)

Returned(name) == op = name /\ done

\* <<x>> if the condition holds, nothing otherwise
Iff(condition, x) == IF condition THEN <<x>> ELSE <<>>

\* s with every single quote doubled, between single quotes
SingleQuoted(s) ==
    <<"'">> \o Concat([i \in 1..Len(s) |-> IF s[i] = "'" THEN <<"'", "'">> ELSE <<s[i]>>]) \o <<"'">>

SpaceJoined(clauses) ==
    Concat([i \in 1..Len(clauses) |-> IF i = 1 THEN clauses[i] ELSE <<" ">> \o clauses[i]])

\* The clauses of a column definition, in the order of the column compiler
ColumnClauses(column) ==
    LET z == zodToSQLite(column.schema)
        check == formatCheckConstraint(column.name, column.schema)
        hasReferences == IsSet(column.references)
        references == Get(column.references)
    IN  <<column.name, <<z.SQLiteType>>>>
        \o Iff(~z.nullable, <<"NOT NULL">>)
        \o Iff(z.defaultValue # UndefinedValue, formatDefaultValue(z.defaultValue, z.SQLiteType))
        \o Iff(column.unique, <<"UNIQUE">>)
        \o (IF IsSet(check) THEN <<Get(check)>> ELSE <<>>)
        \o (IF hasReferences
            THEN <<<<"REFERENCES ">> \o references.table \o <<"(">> \o references.column \o <<")">>>>
                 \o (IF IsSet(references.onDelete)
                     THEN <<<<"ON DELETE ">> \o Get(references.onDelete)>> ELSE <<>>)
                 \o (IF IsSet(references.onUpdate)
                     THEN <<<<"ON UPDATE ">> \o Get(references.onUpdate)>> ELSE <<>>)
            ELSE <<>>)

\* C1: buildColumnDefinition returns, joined by single spaces and in this
\* order: the name, the storage type, NOT NULL iff not nullable, the DEFAULT
\* clause iff a default value was found, UNIQUE iff unique, the CHECK clause
\* iff one is derived, and for a foreign key REFERENCES table(column), then
\* ON DELETE iff onDelete is set, then ON UPDATE iff onUpdate is set; names
\* are emitted verbatim and nothing else is emitted.
C1_ColumnClauseOrder ==
    Returned("buildColumnDefinition") => output = SpaceJoined(ColumnClauses(input))

\* C1 witness: a returned definition that has every clause
C1_Witness ==
    /\ Returned("buildColumnDefinition")
    /\ Len(ColumnClauses(input)) = 9
    /\ output = SpaceJoined(ColumnClauses(input))

\* Whether an optional or nullable layer occurs among the wrapper layers
RECURSIVE HasNullableLayer(_)
HasNullableLayer(schema) ==
    CASE schema.type \in {"optional", "nullable"} -> TRUE
      [] schema.type = "default" -> HasNullableLayer(schema.innerType)
      [] OTHER -> FALSE

Contains(s, atom) == \E i \in 1..Len(s) : s[i] = atom

\* C2: a column is nullable, and its definition has no NOT NULL, iff an
\* optional or nullable layer occurs among its wrappers, wherever the default
\* layers are; z.number().default(0) is REAL NOT NULL DEFAULT 0.
C2_NullableIffLayer ==
    /\ Returned("zodToSQLite") => (output.nullable <=> HasNullableLayer(input))
    /\ Returned("buildColumnDefinition") =>
          /\ Contains(output, "NOT NULL") <=> ~HasNullableLayer(input.schema)
          /\ (input.schema = ZodDefault(ZodNumber(NoFormat, <<>>), NumberValue(0))
              /\ ~input.unique /\ ~IsSet(input.references))
             => output = input.name \o <<" ", "REAL", " ", "NOT NULL", " ", "DEFAULT ", "0">>

\* C2 witness: a nullable layer inside a default layer
C2_Witness ==
    /\ Returned("zodToSQLite")
    /\ input.type = "default"
    /\ input.innerType.type = "nullable"
    /\ output.nullable

StorageTypes ==
    {"TEXT", "INTEGER", "REAL", "FLOAT", "BLOB", "BOOLEAN", "BIGINT", "DATE", "DATETIME", "NULL"}

\* The storage type of each leaf kind
StorageTypeOf(leaf) ==
    CASE leaf.type = "string" /\ leaf.format = "date" -> "DATE"
      [] leaf.type = "string" /\ leaf.format = "datetime" -> "DATETIME"
      [] leaf.type = "string" /\ leaf.format = "duration" -> "INTEGER"
      [] leaf.type = "date" -> "DATE"
      [] leaf.type = "number" /\ leaf.format \in {"int32", "uint32", "safeint"} -> "INTEGER"
      [] leaf.type = "number" /\ leaf.format \in {"float32", "float64"} -> "FLOAT"
      [] leaf.type = "number" /\ leaf.format = NoFormat -> "REAL"
      [] leaf.type = "boolean" -> "BOOLEAN"
      [] leaf.type = "bigint" -> "BIGINT"
      [] leaf.type \in {"null", "undefined"} -> "NULL"
      [] leaf.type = "file" -> "BLOB"
      [] OTHER -> "TEXT"

RECURSIVE LeafOf(_)
LeafOf(schema) ==
    IF schema.type \in {"optional", "nullable", "default"} THEN LeafOf(schema.innerType) ELSE schema

Joined(items, separator) ==
    Concat([i \in 1..Len(items) |-> IF i = 1 THEN items[i] ELSE separator \o items[i]])

CheckInList(name, items) ==
    Some(<<"CHECK(">> \o name \o <<" IN (">> \o Joined(items, <<", ">>) \o <<"))">>)

\* The first occurrence of each element, in order
Distinct(xs) ==
    LET kept == SelectSeq([i \in 1..Len(xs) |-> i], LAMBDA i : \A j \in 1..(i - 1) : xs[j] # xs[i])
    IN  [k \in 1..Len(kept) |-> xs[kept[k]]]

\* C4: for an enum leaf the CHECK clause is CHECK(col IN (...)) with every
\* declared value once, single-quoted with quotes doubled, in the order of
\* declaration, also for values that look like integers.
C4_EnumDeclarationOrder ==
    (Returned("formatCheckConstraint") /\ LeafOf(input.schema).type = "enum") =>
        LET values == Distinct(LeafOf(input.schema).declared)
        IN  output = CheckInList(input.name, [i \in 1..Len(values) |-> SingleQuoted(values[i])])

\* A literal value as SQL: a string single-quoted, anything else as it prints
Rendered(value) == IF value.t = "string" THEN SingleQuoted(value.s) ELSE String(value)

\* C5: for a literal leaf the CHECK clause is CHECK(col = v) with one value
\* and CHECK(col IN (v1, v2, ...)) in declaration order with several; a
\* string value is single-quoted with quotes doubled, any other is unquoted.
C5_LiteralCheck ==
    (Returned("formatCheckConstraint") /\ LeafOf(input.schema).type = "literal") =>
        LET values == LeafOf(input.schema).values
        IN  output = IF Len(values) = 1
                     THEN Some(<<"CHECK(">> \o input.name \o <<" = ">> \o Rendered(values[1]) \o <<")">>)
                     ELSE CheckInList(input.name, [i \in 1..Len(values) |-> Rendered(values[i])])

\* C5 witness: a string with a quote and a number in one literal
C5_Witness ==
    /\ Returned("formatCheckConstraint")
    /\ input.schema = ZodLiteral(<<StringValue(<<"it", "'", "s">>), NumberValue(5)>>)
    /\ output = Some(<<"CHECK(">> \o input.name \o <<" IN (", "'", "it", "'", "'", "s", "'", ", ", "5", "))">>)

\* C6: for a union leaf a CHECK clause is produced iff every option is a
\* literal, and it is then one IN-list of the values of all options, in the
\* order of the options and of the values inside each.
C6_UnionOfLiterals ==
    (Returned("formatCheckConstraint") /\ LeafOf(input.schema).type = "union") =>
        LET options == LeafOf(input.schema).options
            allLiterals == \A i \in 1..Len(options) : options[i].type = "literal"
            flattened == Concat([i \in 1..Len(options) |-> options[i].values])
        IN  /\ IsSet(output) <=> allLiterals
            /\ allLiterals =>
                  output = CheckInList(input.name, [i \in 1..Len(flattened) |-> Rendered(flattened[i])])

\* C6 witness: two literal options, the first with two values
C6_Witness ==
    /\ Returned("formatCheckConstraint")
    /\ input.schema = ZodUnion(<<ZodLiteral(<<StringValue(<<"it", "'", "s">>), NumberValue(5)>>),
                                 ZodLiteral(<<StringValue(<<"a">>)>>)>>)
    /\ output = Some(<<"CHECK(">> \o input.name
                     \o <<" IN (", "'", "it", "'", "'", "s", "'", ", ", "5", ", ", "'", "a", "'", "))">>)

AllOf(constraints) ==
    IF constraints = <<>> THEN None
    ELSE Some(<<"CHECK(">> \o Joined(constraints, <<" AND ">>) \o <<")">>)

\* C7: for a numeric leaf only inclusive bounds are rendered: col >= min for
\* an inclusive minimum, col <= max for an inclusive maximum, and nothing for
\* an exclusive bound.
C7_InclusiveBoundsOnly ==
    (Returned("formatCheckConstraint") /\ LeafOf(input.schema).type = "number") =>
        LET checks == LeafOf(input.schema).checks
            bounds == SelectSeq(checks, LAMBDA c : c.check \in {"greater_than", "less_than"} /\ c.inclusive)
        IN  output = AllOf([i \in 1..Len(bounds) |->
                              input.name
                              \o <<IF bounds[i].check = "greater_than" THEN " >= " ELSE " <= ",
                                   ToString(bounds[i].value)>>])

LengthBounds(checks) == SelectSeq(checks, LAMBDA c : c.check \in {"min_length", "max_length", "length_equals"})

LengthConjunct(name, bound) ==
    <<"length(">> \o name
    \o (CASE bound.check = "min_length" -> <<") >= ", ToString(bound.minimum)>>
          [] bound.check = "max_length" -> <<") <= ", ToString(bound.maximum)>>
          [] OTHER -> <<") = ", ToString(bound.length)>>)

C9_TableBody ==
    Returned("createTable") =>
        LET definitions == [i \in 1..Len(input.columns) |-> buildColumnDefinition(input.columns[i])]
            primaryKey == <<"PRIMARY KEY (">> \o Joined(input.primaryKeys, <<", ">>) \o <<")">>
            elements == definitions \o Iff(input.primaryKeys # <<>>, primaryKey)
        IN  output.table = <<"CREATE TABLE ">> \o input.name \o <<" (", "\n", "  ">>
                           \o Joined(elements, <<",", "\n", "  ">>) \o <<"\n", ");">>

\* C9 witness: two columns and a composite primary key
C9_Witness ==
    /\ Returned("createTable")
    /\ Len(input.columns) = 2
    /\ input.primaryKeys = <<<<"id">>, <<"email">>>>
    /\ SubSeq(output.table, Len(output.table) - 6, Len(output.table))
         = <<"PRIMARY KEY (", "id", ", ", "email", ")", "\n", ");">>

\* The statement of one index; the WHERE clause is there iff hasWhere
IndexStatementOf(tableName, index, hasWhere) ==
    <<"CREATE ">> \o Iff(index.unique, "UNIQUE ") \o <<"INDEX ">> \o index.name \o <<" ON ">>
    \o tableName \o <<" (">> \o Joined(index.columns, <<", ">>) \o <<")">>
    \o (IF hasWhere THEN <<" WHERE ">> \o Get(index.where) ELSE <<>>) \o <<";">>

IndexList(indexes) == IF IsSet(indexes) THEN Get(indexes) ELSE <<>>

\* C10 as claimed: the i-th statement is that of the i-th index, with UNIQUE
\* iff unique, the columns in declared order, and the where predicate
\* appended verbatim iff it is given; no index list gives no statement.
C10_WhereIffGiven ==
    Returned("buildIndexStatements") =>
        output = [i \in 1..Len(IndexList(input.indexes)) |->
                    IndexStatementOf(input.tableName, IndexList(input.indexes)[i],
                                     IsSet(IndexList(input.indexes)[i].where))]

\* C10 as amended: the same, with the where predicate appended verbatim iff
\* it is given and is not the empty string.
C10_WhereIffNotEmpty ==
    Returned("buildIndexStatements") =>
        output = [i \in 1..Len(IndexList(input.indexes)) |->
                    IndexStatementOf(input.tableName, IndexList(input.indexes)[i],
                                     IsSet(IndexList(input.indexes)[i].where)
                                     /\ Get(IndexList(input.indexes)[i].where) # <<>>)]

\* C10 witness: a partial index and then a unique index, in that order
C10_Witness ==
    /\ Returned("buildIndexStatements")
    /\ Len(output) = 2
    /\ output[1] = <<"CREATE ", "INDEX ", "idx_b", " ON ", "users", " (", "status", ", ", "email", ")",
                     " WHERE ", "status = ", "'", "active", "'", ";">>
    /\ output[2] = <<"CREATE ", "UNIQUE ", "INDEX ", "idx_a", " ON ", "users", " (", "email", ")", ";">>

\* The validator (C11)

ColumnAccepts(column, row) == accepts(column.schema, row[column.name])

FailingNames(columns, row) ==
    {columns[i].name : i \in {j \in 1..Len(columns) : ~ColumnAccepts(columns[j], row)}}

\* The orders the columns can be declared in
Permuted(columns) ==
    {[i \in 1..Len(columns) |-> columns[p[i]]] : p \in Permutations(1..Len(columns))}

\* The validator accepts the row iff every column's own, wrapped rule accepts
\* its value; it reports all the failing columns; the columns in any other
\* order make a validator that accepts the row iff this one does
ValidatesEveryColumn ==
    /\ output.result.success <=> FailingNames(input.config.columns, input.row) = {}
    /\ output.result.issues = FailingNames(input.config.columns, input.row)
    /\ \A columns \in Permuted(input.config.columns) :
          safeParse(buildZodSchema(columns), input.row).success = output.result.success

DistinctNames(columns) ==
    \A i, j \in 1..Len(columns) : columns[i].name = columns[j].name => i = j

HasClause(s, clause) ==
    \E i \in 1..(Len(s) - Len(clause) + 1) : SubSeq(s, i, i + Len(clause) - 1) = clause

\* The default a column's schema resolves to: the formatter's arguments
DefaultOf(column) == zodToSQLite(column.schema)

C13_QuotedTextAndDates ==
    (Returned("formatDefaultValue") /\ input.SQLiteType \in {"TEXT", "DATE", "DATETIME"}) =>
        output = <<"DEFAULT ">> \o SingleQuoted(String(input.value))

\* C14: on an INTEGER, REAL or FLOAT column the default clause is DEFAULT
\* followed by the value coerced to a number, unquoted; stated for the
\* defaults that are numbers.
C14_NumericDefaults ==
    (/\ Returned("formatDefaultValue")
     /\ input.SQLiteType \in {"INTEGER", "REAL", "FLOAT"}
     /\ input.value.t = "number") =>
        output = <<"DEFAULT ">> \o NumberToString(Number(input.value))

\* C15: a Date default on a DATE column is rendered as its ISO-8601 text in
\* single quotes.
C15_DateDefaultIso ==
    (Returned("formatDefaultValue") /\ input.SQLiteType = "DATE" /\ input.value.t = "date") =>
        output = <<"DEFAULT ", "'">> \o toISOString(input.value) \o <<"'">>

\* C16: a default that has no numeric value is rendered on an INTEGER or
\* REAL column as a single-quoted string literal.
C16_QuotedFallback ==
    (/\ Returned("formatDefaultValue")
     /\ input.SQLiteType \in {"INTEGER", "REAL"}
     /\ Number(input.value).nan) =>
        output = <<"DEFAULT ">> \o SingleQuoted(String(input.value))

\* What a call that throws a configuration error would return in place of DDL
ConfigurationError == [error |-> "configuration"]

DeclaredNames(config) == {config.columns[i].name : i \in 1..Len(config.columns)}

\* A primary key, or a column of an index, that is not a declared column
NamesUndeclared(config) ==
    \/ \E i \in 1..Len(config.primaryKeys) : config.primaryKeys[i] \notin DeclaredNames(config)
    \/ \E i \in 1..Len(IndexList(config.indexes)) :
          \E j \in 1..Len(IndexList(config.indexes)[i].columns) :
             IndexList(config.indexes)[i].columns[j] \notin DeclaredNames(config)

\* C17: createTable called with a primary key, or an index column, that is
\* not the name of a declared column reports a configuration error and
\* returns no DDL.
C17_UndeclaredNameReported ==
    (Returned("createTable") /\ NamesUndeclared(input)) => output = ConfigurationError

\* The CHECK clause against the validator (C18)

Unwrapped(schema) == formatCheckConstraintUnwrap(schema)

\* The number an atom of digits prints
NumberOf(atom) == CHOOSE n \in 0..200 : ToString(n) = atom

\* SQLite's verdict on the comparison `column operator bound` for the number v
Compares(v, operator, bound) ==
    CASE operator = " >= " -> v >= bound
      [] operator = " <= " -> v <= bound
      [] operator = " > " -> v > bound
      [] operator = " < " -> v < bound
      [] OTHER -> TRUE

\* The number v satisfies every comparison the DDL states on the column
CheckSatisfied(table, name, v) ==
    \A i \in 1..(Len(table) - 2) :
        (table[i] = name[1] /\ table[i + 1] \in {" >= ", " <= ", " > ", " < "}) =>
            Compares(v, table[i + 1], NumberOf(table[i + 2]))

\* The inclusive bounds of a numeric leaf
Minimums(leaf) ==
    {leaf.checks[i].value : i \in {j \in 1..Len(leaf.checks) :
        leaf.checks[j].check = "greater_than" /\ leaf.checks[j].inclusive}}

Maximums(leaf) ==
    {leaf.checks[i].value : i \in {j \in 1..Len(leaf.checks) :
        leaf.checks[j].check = "less_than" /\ leaf.checks[j].inclusive}}

\* A column whose leaf is a number bounded [min, max]
IsBounded(column) ==
    /\ Unwrapped(column.schema).type = "number"
    /\ Minimums(Unwrapped(column.schema)) # {}
    /\ Maximums(Unwrapped(column.schema)) # {}
    /\ \A i \in 1..Len(Unwrapped(column.schema).checks) :
          Unwrapped(column.schema).checks[i].check \in {"greater_than", "less_than"}
              => Unwrapped(column.schema).checks[i].inclusive

BoundaryValues(column) ==
    UNION {{min, min - 1} : min \in Minimums(Unwrapped(column.schema))}
    \cup UNION {{max, max + 1} : max \in Maximums(Unwrapped(column.schema))}

\* The column is the only one of its name in the table
DeclaredOnce(config, i) ==
    \A j \in 1..Len(config.columns) : config.columns[j].name = config.columns[i].name => j = i

\* C18: for a column whose leaf is a number bounded [min, max] and a row
\* whose value for it is min, max, min - 1 or max + 1, the value satisfies the
\* CHECK clause of the returned DDL iff the returned validator raises no
\* issue for the column.
C18_CheckAgreesWithValidator ==
    Returned("safeParse") =>
        \A i \in 1..Len(input.config.columns) :
            LET column == input.config.columns[i]
                value == input.row[column.name]
            IN  (/\ IsBounded(column)
                 /\ DeclaredOnce(input.config, i)
                 /\ value.t = "number"
                 /\ value.n \in BoundaryValues(column)) =>
                    (CheckSatisfied(output.created.table, column.name, value.n)
                        <=> column.name \notin output.result.issues)

C18_Witness ==
    /\ Returned("safeParse")
    /\ Len(input.config.columns) = 2
    /\ input.config.columns[2].name = <<"age">>
    /\ IsBounded(input.config.columns[2])
    /\ DeclaredOnce(input.config, 2)
    /\ BoundaryValues(input.config.columns[2]) = {17, 18, 65, 66}
    /\ input.row[<<"age">>] = NumberValue(66)
    /\ ~CheckSatisfied(output.created.table, <<"age">>, 66)
    /\ CheckSatisfied(output.created.table, <<"age">>, 65)
    /\ <<"age">> \in output.result.issues

\* Compiling twice (C19)

\* A default layer of the schema holds a function that reads the clock
RECURSIVE ReadsClock(_)
ReadsClock(schema) ==
    /\ schema.type \in {"optional", "nullable", "default"}
    /\ \/ schema.type = "default" /\ schema.defaultValue = DateNow
       \/ ReadsClock(schema.innerType)

SameText ==
    /\ output[1].table = output[2].table
    /\ output[1].indexes = output[2].indexes

IncludesCheckClauses(table, columns) ==
    \A i \in 1..Len(columns) :
        LET checkConstraint == formatCheckConstraint(columns[i].name, columns[i].schema)
        IN  IsSet(checkConstraint) => HasClause(table, Get(checkConstraint))

\* C20: the createTable of the package entry point returns an object with
\* exactly the fields table, indexes and schema; table is the CREATE TABLE
\* statement, with the CHECK clauses of the columns' rules, indexes the CREATE
\* INDEX statements and schema the row validator.
C20_TableIndexesSchema ==
    Returned("index.createTable") =>
        /\ DOMAIN output = {"table", "indexes", "schema"}
        /\ HasClause(output.table, <<"CREATE TABLE ">> \o input.name)
        /\ IncludesCheckClauses(output.table, input.columns)
        /\ output.indexes = buildIndexStatements(input.name, input.indexes)
        /\ output.schema = buildZodSchema(input.columns)

\* Refinements (C21)

\* The rule with the custom predicates of its leaf taken away
RECURSIVE WithoutRefinements(_)
WithoutRefinements(schema) ==
    CASE schema.type \in {"optional", "nullable"} ->
            [schema EXCEPT !.innerType = WithoutRefinements(schema.innerType)]
      [] schema.type = "default" ->
            [schema EXCEPT !.innerType = WithoutRefinements(schema.innerType)]
      [] schema.type \in {"string", "number"} ->
            [schema EXCEPT !.checks = SelectSeq(schema.checks, LAMBDA c : c.check # "custom")]
      [] OTHER -> schema

IsRefined(schema) == WithoutRefinements(schema) # schema

\* C21: a custom predicate on a rule adds nothing to the column definition,
\* which is the definition of the same rule without the predicate, and stays
\* in the validator, which rejects what the predicate rejects.
C21_RefinementNotInDDL ==
    /\ Returned("buildColumnDefinition") =>
            output = buildColumnDefinition([input EXCEPT !.schema = WithoutRefinements(input.schema)])
    /\ Returned("safeParse") =>
            \A i \in 1..Len(input.config.columns) :
                LET column == input.config.columns[i]
                IN  (/\ DeclaredOnce(input.config, i)
                     /\ IsRefined(column.schema)
                     /\ ~accepts(column.schema, input.row[column.name])
                     /\ accepts(WithoutRefinements(column.schema), input.row[column.name])) =>
                        /\ column.name \in output.result.issues
                        /\ HasClause(output.created.table,
                                     buildColumnDefinition([column EXCEPT !.schema = WithoutRefinements(column.schema)]))

C21_Witness ==
    \/ /\ Returned("buildColumnDefinition")
       /\ input = [name |-> <<"email">>, schema |-> ZodString(NoFormat, <<IncludesAt>>),
                   unique |-> FALSE, references |-> None]
       /\ output = <<"email", " ", "TEXT", " ", "NOT NULL">>
    \/ /\ Returned("safeParse")
       /\ Len(input.config.columns) = 1
       /\ input.config.columns[1].schema = ZodString(NoFormat, <<IncludesAt>>)
       /\ input.row[<<"email">>] = StringValue(<<"not-an-email">>)
       /\ output.result.issues = {<<"email">>}
       /\ ~Contains(output.created.table, "CHECK(")

\* Stacked default layers (C24)

\* The payloads of the default layers of a rule, outermost first
RECURSIVE DefaultLayers(_)
DefaultLayers(schema) ==
    CASE schema.type = "default" -> <<schema.defaultValue>> \o DefaultLayers(schema.innerType)
      [] schema.type \in {"optional", "nullable"} -> DefaultLayers(schema.innerType)
      [] OTHER -> <<>>

\* The value a payload stands for: itself, or what it returns when called
ValueOf(payload) == IF payload.t = "function" THEN invoke(payload) ELSE payload

InnermostDefault(schema) == ValueOf(DefaultLayers(schema)[Len(DefaultLayers(schema))])

\* C24: of several default layers, the innermost one gives the default value
\* and the DEFAULT clause, whatever optional or nullable layers lie between.
C24_InnermostDefaultWins ==
    /\ (Returned("zodToSQLite") /\ DefaultLayers(input) # <<>>) =>
            output.defaultValue = InnermostDefault(input)
    /\ (Returned("buildColumnDefinition") /\ DefaultLayers(input.schema) # <<>>) =>
            IF InnermostDefault(input.schema) = UndefinedValue
            THEN ~Contains(output, "DEFAULT ")
            ELSE HasClause(output, formatDefaultValue(InnermostDefault(input.schema),
                                                      DefaultOf(input).SQLiteType))

C24_Witness ==
    /\ Returned("zodToSQLite")
    /\ input = ZodDefault(ZodNullable(ZodOptional(ZodDefault(ZodNumber(NoFormat, <<>>), NumberValue(0)))),
                          StringValue(<<"it", "'", "s">>))
    /\ output.defaultValue = NumberValue(0)

\* Function defaults (C25)

\* The function payloads of the default layers of a rule, outermost first
FunctionLayers(schema) == SelectSeq(DefaultLayers(schema), LAMBDA payload : payload.t = "function")

\* The function payloads of all columns, in column order
RECURSIVE FunctionLayersFrom(_, _)
FunctionLayersFrom(columns, i) ==
    IF i > Len(columns) THEN <<>>
    ELSE FunctionLayers(columns[i].schema) \o FunctionLayersFrom(columns, i + 1)

\* C25: one createTable call calls the function of each default layer exactly
\* once, and the DEFAULT clause shows the value the function returned.
C25_FunctionInvokedOnce ==
    /\ Returned("createTable") => invoked = FunctionLayersFrom(input.columns, 1)
    /\ Returned("index.createTable") => invoked = FunctionLayersFrom(input.columns, 1)
    /\ (op = "createTableTwice" /\ Len(output) = 1) => invoked = FunctionLayersFrom(input.columns, 1)
    /\ (Returned("buildColumnDefinition") /\ FunctionLayers(input.schema) # <<>>
            /\ InnermostDefault(input.schema) # UndefinedValue) =>
            HasClause(output, formatDefaultValue(InnermostDefault(input.schema), DefaultOf(input).SQLiteType))

\* Order of the conjuncts (C26)

\* The kind of bound a comparison of the CHECK text stands for
ConjunctKind(atom) ==
    CASE atom \in {" >= ", ") >= "} -> "minimum"
      [] atom \in {" <= ", ") <= "} -> "maximum"
      [] OTHER -> "exact"

\* The kinds of the conjuncts of a CHECK clause, in the order of the text
ConjunctKinds(clause) ==
    LET comparisons == SelectSeq(clause, LAMBDA atom : atom \in {" >= ", " <= ", ") >= ", ") <= ", ") = "})
    IN  [i \in 1..Len(comparisons) |-> ConjunctKind(comparisons[i])]

\* The kind of bound a declared check is
BoundKind(check) ==
    CASE check.check \in {"greater_than", "min_length"} -> "minimum"
      [] check.check \in {"less_than", "max_length"} -> "maximum"
      [] OTHER -> "exact"

\* The kinds of the bounds of a leaf, in the order they were declared
DeclaredKinds(leaf) ==
    LET bounds == SelectSeq(leaf.checks,
                            LAMBDA c : c.check \in {"greater_than", "less_than",
                                                    "min_length", "max_length", "length_equals"})
    IN  [i \in 1..Len(bounds) |-> BoundKind(bounds[i])]

KindRank(kind) == CASE kind = "minimum" -> 1 [] kind = "maximum" -> 2 [] OTHER -> 3

IsBoundedLeaf(schema) == LeafOf(schema).type \in {"number", "string"} /\ DeclaredKinds(LeafOf(schema)) # <<>>

\* C26 as stated: the conjuncts of a CHECK clause come minimum, then maximum,
\* then exact length, whatever the order the bounds were declared in.
C26_FixedKindOrder ==
    (Returned("formatCheckConstraint") /\ IsBoundedLeaf(input.schema) /\ IsSet(output)) =>
        LET kinds == ConjunctKinds(Get(output))
        IN  \A i, j \in 1..Len(kinds) : i < j => KindRank(kinds[i]) <= KindRank(kinds[j])

\* C26 amended: the conjuncts of a CHECK clause come in the order the bounds
\* were declared on the rule, one conjunct per declared bound.
C26_DeclarationOrder ==
    (Returned("formatCheckConstraint") /\ IsBoundedLeaf(input.schema)) =>
        /\ IsSet(output)
        /\ ConjunctKinds(Get(output)) = DeclaredKinds(LeafOf(input.schema))

C26_Witness ==
    /\ Returned("formatCheckConstraint")
    /\ input.schema = ZodNumber(NoFormat, <<LessThan(120, TRUE), GreaterThan(18, TRUE)>>)
    /\ output = Some(<<"CHECK(">> \o input.name \o <<" <= ", "120", " AND ">>
                     \o input.name \o <<" >= ", "18", ")">>)

\* The two unwrapping loops (C27)

\* The number of optional, nullable and default layers around the leaf
RECURSIVE Layers(_)
Layers(schema) ==
    IF schema.type \in {"optional", "nullable", "default"} THEN 1 + Layers(schema.innerType) ELSE 0

\* C27: formatCheckConstraint stops at the leaf zodToSQLite stops at, so the
\* CHECK clause of a rule is that of its leaf, with or without wrappers, and
\* the storage type and the CHECK clause of a column come from one leaf.
C27_SameLeaf ==
    /\ Returned("formatCheckConstraint") =>
            /\ formatCheckConstraintUnwrap(input.schema)
                    = zodToSQLiteLoop(input.schema, FALSE, UndefinedValue).currentSchema
            /\ output = formatCheckConstraint(input.name, LeafOf(input.schema))
    /\ Returned("buildColumnDefinition") =>
            LET leaf == zodToSQLiteLoop(input.schema, FALSE, UndefinedValue).currentSchema
                check == formatCheckConstraint(input.name, leaf)
            IN  /\ SubSeq(output, Len(input.name) + 1, Len(input.name) + 2)
                        = <<" ", mapZodTypeToSQLite(leaf.type, leaf)>>
                /\ IF IsSet(check) THEN HasClause(output, Get(check)) ELSE ~Contains(output, "CHECK(")

C27_Witness ==
    /\ Returned("buildColumnDefinition")
    /\ input.schema = ZodOptional(ZodDefault(ZodNumber(NoFormat, <<GreaterThan(0, TRUE)>>), NumberValue(0)))
    /\ Layers(input.schema) = 2
    /\ HasClause(output, <<"REAL", " ", "DEFAULT ", "0">>)
    /\ HasClause(output, <<"CHECK(">> \o input.name \o <<" >= ", "0", ")">>)

\* Keys of the validator (C28)

\* The index of the last column of the name of column i
LastOfName(columns, i) ==
    CHOOSE j \in 1..Len(columns) :
        /\ columns[j].name = columns[i].name
        /\ \A k \in 1..Len(columns) : columns[k].name = columns[i].name => k <= j

\* C28: the keys of the validator are the column names of the DDL; columns of
\* one name give one column definition each and one key, bound to the rule
\* of the last of them.
C28_ValidatorKeys ==
    Returned("createTable") =>
        /\ DOMAIN output.schema = DeclaredNames(input)
        /\ \A i \in 1..Len(input.columns) :
                /\ HasClause(output.table, buildColumnDefinition(input.columns[i]))
                /\ input.columns[i].name \in DOMAIN output.schema
                /\ output.schema[input.columns[i].name]
                        = input.columns[LastOfName(input.columns, i)].schema

\* Presence of the DEFAULT clause (C29)

HasDefaultClause(definition) == Contains(definition, "DEFAULT ") \/ Contains(definition, "DEFAULT NULL")

\* C29: a column definition has a DEFAULT clause iff the default value its
\* rule resolves to is not undefined: none without a default layer, none for
\* a default of undefined or a function returning undefined, and for a
\* default of null DEFAULT 'null' on TEXT and DEFAULT 0 on INTEGER and REAL.
C29_DefaultIffDefined ==
    Returned("buildColumnDefinition") =>
        LET layers == DefaultLayers(input.schema)
            type == DefaultOf(input).SQLiteType
        IN  /\ layers = <<>> => ~HasDefaultClause(output)
            /\ layers # <<>> =>
                    /\ HasDefaultClause(output) <=> InnermostDefault(input.schema) # UndefinedValue
                    /\ (InnermostDefault(input.schema) = NullValue /\ type = "TEXT") =>
                            HasClause(output, <<"TEXT", " ", "NOT NULL", " ", "DEFAULT ", "'", "null", "'">>)
                               \/ HasClause(output, <<"TEXT", " ", "DEFAULT ", "'", "null", "'">>)
                    /\ (InnermostDefault(input.schema) = NullValue /\ type \in {"INTEGER", "REAL"}) =>
                            HasClause(output, <<" ", "DEFAULT ", "0">>)

C29_Witness ==
    /\ Returned("buildColumnDefinition")
    /\ \/ /\ input.schema = ZodDefault(ZodString(NoFormat, <<>>), FunctionValue(UndefinedValue))
          /\ output = input.name \o <<" ", "TEXT", " ", "NOT NULL">>
       \/ /\ input.schema = ZodDefault(ZodNumber(NoFormat, <<>>), NullValue)
          /\ HasClause(output, <<"REAL", " ", "NOT NULL", " ", "DEFAULT ", "0">>)

\* Elements of the table body (C30)

Separator == <<",", "\n", "  ">>

\* The text between "CREATE TABLE name (\n  " and "\n);"
TableBody(config, table) == SubSeq(table, Len(config.name) + 5, Len(table) - 2)

\* The places of the body where a separator starts
SeparatorsIn(body) == {i \in 1..(Len(body) - 2) : SubSeq(body, i, i + 2) = Separator}

ElementsIn(body) == IF body = <<>> THEN 0 ELSE Cardinality(SeparatorsIn(body)) + 1

\* C30: the body of CREATE TABLE has one element per column and one more iff
\* primaryKeys is not empty; every column definition is kept, the one of a
\* column without a name too, and no separator stands first, last or next to
\* another separator.
C30_BodyElements ==
    Returned("createTable") =>
        LET body == TableBody(input, output.table)
            separators == SeparatorsIn(body)
        IN  /\ ElementsIn(body) = Len(input.columns) + (IF input.primaryKeys # <<>> THEN 1 ELSE 0)
            /\ \A i \in 1..Len(input.columns) : buildColumnDefinition(input.columns[i]) # <<>>
            /\ 1 \notin separators
            /\ (Len(body) - 2) \notin separators
            /\ \A i \in separators : (i + 3) \notin separators

C30_Witness ==
    /\ Returned("createTable")
    /\ Len(input.columns) = 2
    /\ input.columns[1].name = <<>>
    /\ input.primaryKeys = <<>>
    /\ ElementsIn(TableBody(input, output.table)) = 2
    /\ SubSeq(output.table, 1, 8) = <<"CREATE TABLE ", "users", " (", "\n", "  ", " ", "TEXT", ",">>

\* Termination of the unwrapping loop (C23)

\* The rule under the n outermost layers
RECURSIVE Peeled(_, _)
Peeled(schema, n) == IF n = 0 THEN schema ELSE Peeled(schema.innerType, n - 1)

LoopPeelsLayers ==
    /\ output.iterations <= Layers(input)
    /\ output.currentSchema = Peeled(input, output.iterations)
    /\ done =>
        /\ output.iterations = Layers(input)
        /\ output.currentSchema = LeafOf(input)
        /\ output.returned = Some(zodToSQLite(input))
        /\ invoked = zodToSQLiteInvoked(input)
        /\ Layers(input) = 0 =>
                /\ output.currentSchema = input
                /\ Get(output.returned).nullable = FALSE
                /\ Get(output.returned).defaultValue = UndefinedValue

\* The part of C23 about the loop: around a leaf under N optional, nullable
\* and default layers it makes N passes, one layer each, and then ends with
\* currentSchema on that leaf, unchanged.
LoopTerminates == [](LoopPeelsLayers) /\ <>done

\* A call that ended after four passes
LoopEnded ==
    /\ done
    /\ Layers(input) = 4
    /\ output.iterations = 4
    /\ output.currentSchema = ZodNumber(NoFormat, <<>>)
    /\ Get(output.returned).schema = input

\* C23: zodToSQLite ends after peeling the N layers around the leaf and
\* returns that leaf, unchanged; for N = 0 it returns the rule it was given,
\* with nullable = false and defaultValue = undefined.
C23_ReturnsLeaf ==
    done =>
        /\ output.iterations = Layers(input)
        /\ Get(output.returned).schema = LeafOf(input)
        /\ Layers(input) = 0 =>
                /\ Get(output.returned).schema = input
                /\ Get(output.returned).nullable = FALSE
                /\ Get(output.returned).defaultValue = UndefinedValue

\* Calls in progress at once (C22)

\* The locals of a call that runs alone, after n statements: the column
\* definitions built so far, and the locals assigned so far, each a part of
\* what the call returns or the text it is made from
createTableAlone(config, n) ==
    LET k == Len(config.columns)
        definitions == [i \in 1..k |-> buildColumnDefinition(config.columns[i])]
        primaryKey == buildPrimaryKeyConstraint(config.primaryKeys)
        whole == createTable(config)
        pcs == <<"primaryKeyConstraint", "tableElements", "createTableSQL", "createIndexesSQL",
                 "zodSchema", "return", "returned">>
    IN  [config |-> config,
         pc |-> IF n <= k THEN "columnDefs" ELSE pcs[n - k],
         steps |-> n,
         columnDefs |-> SubSeq(definitions, 1, IF n <= k THEN n ELSE k),
         primaryKeyConstraint |-> IF n >= k + 2 THEN primaryKey ELSE <<>>,
         tableElements |-> IF n >= k + 3
                           THEN definitions \o (IF primaryKey = <<>> THEN <<>> ELSE <<primaryKey>>)
                           ELSE <<>>,
         createTableSQL |-> IF n >= k + 4 THEN whole.table ELSE <<>>,
         createIndexesSQL |-> IF n >= k + 5 THEN whole.indexes ELSE <<>>,
         zodSchema |-> IF n >= k + 6 THEN Some(whole.schema) ELSE None,
         returned |-> IF n >= k + 7 THEN Some(whole) ELSE None]

\* C22: with two createTable calls in progress, however their statements are
\* interleaved, each call has at every point the locals it has when it runs
\* alone, and returns what it returns alone.
C22_CallsIndependent ==
    \A call \in 1..2 :
        /\ output[call] = createTableAlone(input[call], output[call].steps)
        /\ output[call].pc = "returned" => output[call].returned = Some(createTable(input[call]))

\* Both calls are in progress at once: the first has built its two column
\* definitions and its key constraint, the second is between its two columns,
\* having invoked a default function after the first call did
C22_Witness ==
    /\ ~done
    /\ input[1].columns # input[2].columns
    /\ output[1].pc = "tableElements"
    /\ Len(output[1].columnDefs) = 2
    /\ output[2].pc = "columnDefs"
    /\ Len(output[2].columnDefs) = 1
    /\ Len(input[2].columns) = 2
    /\ Len(invoked) >= 2

====
